---- MODULE Spec2Model ----
(***************************************************************************)
(* Rent-vs-buy calculation engine: amortization, cash-flow projection and  *)
(* metrics (src/calc).  Every function of the engine is a pure function of *)
(* its arguments; the state machine below is a caller that invokes one     *)
(* function at a time and holds the call's arguments and its outcome.      *)
(*                                                                         *)
(* Numbers.  The Python code computes on floats.  Here a float is a signed *)
(* fixed-point number: the integer x stands for x / SCALE, and every       *)
(* multiplication and division rounds to the nearest representable value,  *)
(* as a float operation does.  Sums and differences are exact.             *)
(***************************************************************************)
EXTENDS Integers, Sequences, FiniteSets, TLC

SCALE == 10^6

Abs(x) == IF x < 0 THEN -x ELSE x

Max2(a, b) == IF a >= b THEN a ELSE b

Min2(a, b) == IF a <= b THEN a ELSE b

Sign(x) == IF x < 0 THEN -1 ELSE 1

(* Product of two non-negative floats, rounded half up.  With a = a1*K+a0  *)
(* and b = b1*K+b0, K*K = SCALE, the product a*b/SCALE is computed from    *)
(* the four partial products, none of which leaves the integer range.      *)
K == 10^3

MulParts(a1, a0, b1, b0) ==
  a1 * b1 + ((a1 * b0 + a0 * b1 + (K \div 2) + ((a0 * b0) \div K)) \div K)

MulNonNeg(a, b) == MulParts(a \div K, a % K, b \div K, b % K)

(* float * float *)
FMul(a, b) == Sign(a) * Sign(b) * MulNonNeg(Abs(a), Abs(b))

(* Long division.  qr = <<q, r>> with q*b + r = a*m for some multiplier m  *)
(* becomes the pair for 2*m (QRDouble) and for m + 1 (QRAddOne); MulDivQR  *)
(* builds the pair for m from the bits of m.  Requires 0 < b < 2^30.       *)
QRDouble(qr, b) == <<2 * qr[1] + (2 * qr[2]) \div b, (2 * qr[2]) % b>>

QRAddOne(qr, a, b) ==
  <<qr[1] + (a \div b) + ((qr[2] + (a % b)) \div b), (qr[2] + (a % b)) % b>>

QRStep(qr, a, m, b) ==
  IF m % 2 = 0 THEN QRDouble(qr, b) ELSE QRAddOne(QRDouble(qr, b), a, b)

RECURSIVE MulDivQR(_, _, _)
MulDivQR(a, m, b) ==
  IF m = 0 THEN <<0, 0>> ELSE QRStep(MulDivQR(a, m \div 2, b), a, m, b)

RoundHalfUp(qr, b) == IF 2 * qr[2] >= b THEN qr[1] + 1 ELSE qr[1]

(* a * SCALE / b for a >= 0 and 0 < b < 2^30, rounded half up *)
DivNonNeg(a, b) == RoundHalfUp(MulDivQR(a, SCALE, b), b)

(* float / float *)
FDiv(a, b) == Sign(a) * Sign(b) * DivNonNeg(Abs(a), Abs(b))

(* float / int, for an integer k > 0 *)
FDivInt(a, k) == Sign(a) * RoundHalfUp(<<Abs(a) \div k, Abs(a) % k>>, k)

(* int -> float *)
ToFloat(k) == k * SCALE

(* float ** k for an integer k >= 0, by repeated squaring; x ** 0 is 1.0 *)
Square(x) == FMul(x, x)

PowStep(sq, x, k) == IF k % 2 = 0 THEN sq ELSE FMul(sq, x)

RECURSIVE FPow(_, _)
FPow(x, k) ==
  IF k = 0 THEN SCALE ELSE PowStep(Square(FPow(x, k \div 2)), x, k)

(* Python's None and a present value *)
None == [some |-> FALSE, val |-> 0]

Some(v) == [some |-> TRUE, val |-> v]

(***************************************************************************)
(* numpy_financial, as called by the engine (when = 'end', fv = 0).        *)
(***************************************************************************)
NpfFact(rate, nper) ==
  IF rate = 0 THEN ToFloat(nper)
  ELSE FDiv(FPow(SCALE + rate, nper) - SCALE, rate)

(* npf.pmt(rate, nper, pv) = -(fv + pv*temp)/fact *)
npf_pmt(rate, nper, pv) ==
  -FDiv(FMul(pv, FPow(SCALE + rate, nper)), NpfFact(rate, nper))

(* npf.pv(rate, nper, pmt, 0) = -(fv + pmt*fact)/temp *)
npf_pv(rate, nper, pmt) ==
  -FDiv(FMul(pmt, NpfFact(rate, nper)), FPow(SCALE + rate, nper))

(***************************************************************************)
(* calc/amortization.py                                                    *)
(***************************************************************************)
AmortRow(m, interest, principal, bal, ci, cp) ==
  [month |-> m, interest |-> interest, principal |-> principal,
   balance |-> bal, cumulative_interest |-> ci, cumulative_principal |-> cp]

(* The locals of amortize when its loop is entered (lines 22-35).  With   *)
(* loan_amount <= 0 the function returns the empty schedule at once: no    *)
(* payment is computed and the loop has no pass.                           *)
NoLoanLocals ==
  [n |-> 0, r |-> 0, pmt |-> 0, m |-> 1, bal |-> 0,
   cumulative_interest |-> 0, cumulative_principal |-> 0, rows |-> <<>>]

AmortLocals(n, r, pmt, loan_amount) ==
  [n |-> n, r |-> r, pmt |-> pmt, m |-> 1, bal |-> loan_amount,
   cumulative_interest |-> 0, cumulative_principal |-> 0, rows |-> <<>>]

(* mutant: the loop stops one month early, range(1, n) *)
AmortizeEntry_short(loan_amount, rate_annual, term_years) ==
  IF loan_amount <= 0 THEN NoLoanLocals
  ELSE LET n == term_years * 12
           r == FDivInt(rate_annual, 12)
       IN AmortLocals(n - 1, r, npf_pmt(r, n, -loan_amount), loan_amount)

(* mutant: the payment is computed for a term one year too long *)
AmortizeEntry_longer_term(loan_amount, rate_annual, term_years) ==
  IF loan_amount <= 0 THEN NoLoanLocals
  ELSE LET n == term_years * 12
           r == FDivInt(rate_annual, 12)
       IN AmortLocals(n, r, npf_pmt(r, n + 12, -loan_amount), loan_amount)

(* mutant: the guard tests loan_amount < 0, so a loan of 0 is amortized *)
AmortizeEntry_zero_loan(loan_amount, rate_annual, term_years) ==
  IF loan_amount < 0 THEN NoLoanLocals
  ELSE LET n == term_years * 12
           r == FDivInt(rate_annual, 12)
       IN AmortLocals(n, r, npf_pmt(r, n, -loan_amount), loan_amount)

AmortizeEntry(loan_amount, rate_annual, term_years) ==
  IF loan_amount <= 0 THEN NoLoanLocals
  ELSE LET n == term_years * 12
           r == FDivInt(rate_annual, 12)
       IN AmortLocals(n, r, npf_pmt(r, n, -loan_amount), loan_amount)

(* one pass of the loop "for m in range(1, n + 1)" (lines 37-52) *)
AmortizeBody(loc) ==
  LET interest == FMul(loc.bal, loc.r)
      principal == loc.pmt - interest
      bal == Max2(loc.bal - principal, 0)
      cumulative_interest == loc.cumulative_interest + interest
      cumulative_principal == loc.cumulative_principal + principal
  IN [loc EXCEPT !.m = loc.m + 1,
                 !.bal = bal,
                 !.cumulative_interest = cumulative_interest,
                 !.cumulative_principal = cumulative_principal,
                 !.rows = Append(loc.rows,
                                 AmortRow(loc.m, interest, principal, bal,
                                          cumulative_interest,
                                          cumulative_principal))]

(* the level payment amortize and remaining_balance_at_month both compute *)
LevelPayment(loan_amount, rate_annual, term_years) ==
  npf_pmt(FDivInt(rate_annual, 12), term_years * 12, -loan_amount)

RECURSIVE SumCol(_, _)
SumCol(rows, col) ==
  IF rows = <<>> THEN 0 ELSE rows[1][col] + SumCol(Tail(rows), col)

total_payments(amortization_df) ==
  IF amortization_df = <<>>
  THEN [total_interest |-> 0, total_principal |-> 0, total_payments |-> 0]
  ELSE LET ti == SumCol(amortization_df, "interest")
           tp == SumCol(amortization_df, "principal")
       IN [total_interest |-> ti, total_principal |-> tp,
           total_payments |-> ti + tp]

(* mutant: the guard tests month < 0, so month 0 falls through *)
remaining_balance_month0(loan_amount, rate_annual, term_years, month) ==
  IF loan_amount <= 0 \/ month < 0 THEN 0
  ELSE LET total_months == term_years * 12
       IN IF month > total_months THEN 0
          ELSE LET r == FDivInt(rate_annual, 12)
                   pmt == npf_pmt(r, total_months, -loan_amount)
                   remaining_payments == total_months - month
               IN IF remaining_payments <= 0 THEN 0
                  ELSE Max2(npf_pv(r, remaining_payments, -pmt), 0)

(* mutant: one payment too many is counted as remaining *)
remaining_balance_offbyone(loan_amount, rate_annual, term_years, month) ==
  IF loan_amount <= 0 \/ month <= 0 THEN 0
  ELSE LET total_months == term_years * 12
       IN IF month > total_months THEN 0
          ELSE LET r == FDivInt(rate_annual, 12)
                   pmt == npf_pmt(r, total_months, -loan_amount)
                   remaining_payments == total_months - month + 1
               IN IF remaining_payments <= 0 THEN 0
                  ELSE Max2(npf_pv(r, remaining_payments, -pmt), 0)

(* mutant: the payments already made are valued instead of those remaining *)
remaining_balance_paid(loan_amount, rate_annual, term_years, month) ==
  IF loan_amount <= 0 \/ month <= 0 THEN 0
  ELSE LET total_months == term_years * 12
       IN IF month > total_months THEN 0
          ELSE LET r == FDivInt(rate_annual, 12)
                   pmt == npf_pmt(r, total_months, -loan_amount)
                   remaining_payments == total_months - month
               IN IF remaining_payments <= 0 THEN 0
                  ELSE Max2(npf_pv(r, month, -pmt), 0)

remaining_balance_at_month(loan_amount, rate_annual, term_years, month) ==
  IF loan_amount <= 0 \/ month <= 0 THEN 0
  ELSE LET total_months == term_years * 12
       IN IF month > total_months THEN 0
          ELSE LET r == FDivInt(rate_annual, 12)
                   pmt == npf_pmt(r, total_months, -loan_amount)
                   remaining_payments == total_months - month
               IN IF remaining_payments <= 0 THEN 0
                  ELSE Max2(npf_pv(r, remaining_payments, -pmt), 0)

(***************************************************************************)
(* calc/metrics.py                                                         *)
(***************************************************************************)
SetMin(S) == CHOOSE x \in S : \A y \in S : x <= y

(* The outcome of a call: the value returned, or the exception raised. *)
Returned(v) == [raised |-> "no", value |-> v]

Raised(e) == [raised |-> e, value |-> None]

(* mutant: mismatched lengths are rejected with an exception *)
calculate_breakeven_month_raise(buy_cumulative_costs, rent_cumulative_costs) ==
  IF Len(buy_cumulative_costs) # Len(rent_cumulative_costs)
  THEN Raised("ValueError")
  ELSE LET breakeven_indices ==
             {i \in 0..(Len(buy_cumulative_costs) - 1) :
                buy_cumulative_costs[i + 1] - rent_cumulative_costs[i + 1] <= 0}
       IN IF breakeven_indices # {} THEN Returned(Some(SetMin(breakeven_indices) + 1))
          ELSE Returned(None)

(* mutant: no length guard; the series are compared over their common      *)
(* prefix                                                                  *)
calculate_breakeven_month_noguard(buy_cumulative_costs, rent_cumulative_costs) ==
  LET len == Min2(Len(buy_cumulative_costs), Len(rent_cumulative_costs))
      breakeven_indices ==
        {i \in 0..(len - 1) :
           buy_cumulative_costs[i + 1] - rent_cumulative_costs[i + 1] <= 0}
  IN IF breakeven_indices # {} THEN Returned(Some(SetMin(breakeven_indices) + 1))
     ELSE Returned(None)

(* mutant: strict comparison, cost_difference < 0 *)
calculate_breakeven_month_strict(buy_cumulative_costs, rent_cumulative_costs) ==
  IF Len(buy_cumulative_costs) # Len(rent_cumulative_costs) THEN Returned(None)
  ELSE LET breakeven_indices ==
             {i \in 0..(Len(buy_cumulative_costs) - 1) :
                buy_cumulative_costs[i + 1] - rent_cumulative_costs[i + 1] < 0}
       IN IF breakeven_indices # {} THEN Returned(Some(SetMin(breakeven_indices) + 1))
          ELSE Returned(None)

(* np.where(cost_difference <= 0)[0] holds the 0-based positions in        *)
(* increasing order; the first one, plus 1, is the month.                  *)
calculate_breakeven_month(buy_cumulative_costs, rent_cumulative_costs) ==
  IF Len(buy_cumulative_costs) # Len(rent_cumulative_costs) THEN Returned(None)
  ELSE LET breakeven_indices ==
             {i \in 0..(Len(buy_cumulative_costs) - 1) :
                buy_cumulative_costs[i + 1] - rent_cumulative_costs[i + 1] <= 0}
       IN IF breakeven_indices # {} THEN Returned(Some(SetMin(breakeven_indices) + 1))
          ELSE Returned(None)

(* What npf.irr(cash_flows) can hand back to calculate_irr: a finite       *)
(* monthly rate, None, NaN, an infinity, or an exception.                  *)
IrrNum(m) == [kind |-> "num", val |-> m]

IrrSpecial(k) == [kind |-> k, val |-> 0]

CaughtByCalculateIrr == {"ValueError", "OverflowError", "RuntimeError"}

(* annual_irr = (1 + monthly_irr) ** 12 - 1 *)
AnnualizeIrr(monthly_irr) == FPow(SCALE + monthly_irr, 12) - SCALE

IrrLow == -99 * (SCALE \div 100)

IrrHigh == 10 * SCALE

(* mutant: the upper sanity bound is not applied *)
calculate_irr_no_upper(outcome) ==
  IF outcome.kind \in CaughtByCalculateIrr THEN Returned(None)
  ELSE IF outcome.kind \in {"None", "nan", "inf", "-inf"} THEN Returned(None)
  ELSE IF outcome.kind # "num" THEN Raised(outcome.kind)
  ELSE LET annual_irr == AnnualizeIrr(outcome.val)
       IN IF annual_irr < IrrLow THEN Returned(None)
          ELSE Returned(Some(annual_irr))

(* mutant: the root-finder's exception is not caught *)
calculate_irr_no_except(outcome) ==
  IF outcome.kind \in {"None", "nan", "inf", "-inf"} THEN Returned(None)
  ELSE IF outcome.kind # "num" THEN Raised(outcome.kind)
  ELSE LET annual_irr == AnnualizeIrr(outcome.val)
       IN IF annual_irr < IrrLow \/ annual_irr > IrrHigh THEN Returned(None)
          ELSE Returned(Some(annual_irr))

(* calculate_irr, given the outcome of npf.irr on its cash flows *)
calculate_irr(outcome) ==
  IF outcome.kind \in CaughtByCalculateIrr THEN Returned(None)
  ELSE IF outcome.kind \in {"None", "nan", "inf", "-inf"} THEN Returned(None)
  ELSE IF outcome.kind # "num" THEN Raised(outcome.kind)
  ELSE LET annual_irr == AnnualizeIrr(outcome.val)
       IN IF annual_irr < IrrLow \/ annual_irr > IrrHigh THEN Returned(None)
          ELSE Returned(Some(annual_irr))

(***************************************************************************)
(* calc/models.py                                                          *)
(***************************************************************************)
(* truth value of an Optional[float] in "if x and y": None and 0.0 are     *)
(* both false                                                              *)
Truthy(opt) == opt.some /\ opt.val # 0

from_user_inputs(user_inputs) ==
  [loan_amount |-> FMul(user_inputs.purchase_price,
                        SCALE - user_inputs.down_payment_pct),
   monthly_mortgage_rate |-> FDivInt(user_inputs.mortgage_rate, 12),
   monthly_rent_growth_rate |-> FDivInt(user_inputs.rent_growth_pct, 12),
   monthly_alt_return_rate |-> FDivInt(user_inputs.alt_return_annual, 12),
   monthly_inflation_rate |-> FDivInt(user_inputs.inflation_discount_annual, 12),
   monthly_appreciation_rate |-> FDivInt(user_inputs.annual_appreciation, 12),
   horizon_months |-> user_inputs.horizon_years * 12,
   down_payment_amount |-> FMul(user_inputs.purchase_price,
                                user_inputs.down_payment_pct)]

(***************************************************************************)
(* calc/buy_flow.py                                                        *)
(***************************************************************************)
calculate_monthly_owner_costs(user_inputs, derived_inputs, home_value, month) ==
  LET monthly_property_tax ==
        FDivInt(FMul(home_value, user_inputs.property_tax_rate), 12)
      monthly_insurance_hoa == FDivInt(user_inputs.insurance_hoa_annual, 12)
      monthly_maintenance ==
        FDivInt(FMul(home_value, user_inputs.maintenance_pct), 12)
      monthly_other == FDivInt(user_inputs.other_owner_costs_annual, 12)
      current_loan_balance ==
        remaining_balance_at_month(derived_inputs.loan_amount,
                                   user_inputs.mortgage_rate,
                                   user_inputs.mortgage_term_years, month)
      current_ltv ==
        IF home_value > 0 THEN FDiv(current_loan_balance, home_value) ELSE 0
      pmi_payment ==
        IF Truthy(user_inputs.pmi_annual_pct)
           /\ Truthy(user_inputs.pmi_threshold_pct)
           /\ current_ltv > user_inputs.pmi_threshold_pct.val
        THEN FDivInt(FMul(current_loan_balance,
                          user_inputs.pmi_annual_pct.val), 12)
        ELSE 0
  IN [property_tax |-> monthly_property_tax,
      insurance_hoa |-> monthly_insurance_hoa,
      maintenance |-> monthly_maintenance,
      other_costs |-> monthly_other,
      pmi |-> pmi_payment,
      total_monthly_costs |-> monthly_property_tax + monthly_insurance_hoa
                              + monthly_maintenance + monthly_other
                              + pmi_payment]

(* mutant: the SALT cap is not applied to the property tax *)
calculate_tax_shield_nocap(mortgage_interest, property_tax, tax_params, points_deduction) ==
  LET total_itemizable == mortgage_interest * 12 + property_tax * 12
                          + points_deduction
  IN IF total_itemizable > tax_params.standard_deduction
     THEN FDivInt(FMul(total_itemizable - tax_params.standard_deduction,
                       tax_params.federal_marginal_rate
                       + tax_params.state_marginal_rate), 12)
     ELSE 0

(* mutant: only the federal marginal rate is applied to the excess *)
calculate_tax_shield_federal_only(mortgage_interest, property_tax, tax_params, points_deduction) ==
  LET total_itemizable == mortgage_interest * 12
                          + Min2(property_tax * 12, tax_params.salt_cap)
                          + points_deduction
  IN IF total_itemizable > tax_params.standard_deduction
     THEN FDivInt(FMul(total_itemizable - tax_params.standard_deduction,
                       tax_params.federal_marginal_rate), 12)
     ELSE 0

(* mutant: the SALT cap is applied to the monthly property tax, before it  *)
(* is annualized                                                           *)
calculate_tax_shield_monthly_cap(mortgage_interest, property_tax, tax_params, points_deduction) ==
  LET total_itemizable == mortgage_interest * 12
                          + Min2(property_tax, tax_params.salt_cap) * 12
                          + points_deduction
  IN IF total_itemizable > tax_params.standard_deduction
     THEN FDivInt(FMul(total_itemizable - tax_params.standard_deduction,
                       tax_params.federal_marginal_rate
                       + tax_params.state_marginal_rate), 12)
     ELSE 0

(* mutant: the excess over the standard deduction is taxed back even when  *)
(* it is negative                                                          *)
calculate_tax_shield_unguarded(mortgage_interest, property_tax, tax_params, points_deduction) ==
  LET total_itemizable == mortgage_interest * 12
                          + Min2(property_tax * 12, tax_params.salt_cap)
                          + points_deduction
  IN -FDivInt(FMul(Abs(total_itemizable - tax_params.standard_deduction),
                   tax_params.federal_marginal_rate
                   + tax_params.state_marginal_rate), 12)

calculate_tax_shield(mortgage_interest, property_tax, tax_params, points_deduction) ==
  LET annual_mortgage_interest == mortgage_interest * 12
      annual_property_tax == property_tax * 12
      annual_points == points_deduction
      salt_limited_property_tax == Min2(annual_property_tax, tax_params.salt_cap)
      total_itemizable == annual_mortgage_interest + salt_limited_property_tax
                          + annual_points
  IN IF total_itemizable > tax_params.standard_deduction
     THEN LET excess_deduction == total_itemizable - tax_params.standard_deduction
              combined_marginal_rate == tax_params.federal_marginal_rate
                                        + tax_params.state_marginal_rate
          IN FDivInt(FMul(excess_deduction, combined_marginal_rate), 12)
     ELSE 0

(* the schedule calculate_buy_cash_flows works from (lines 128-136):      *)
(* amortize's, or, when that is empty, one all-zero row per month of the   *)
(* horizon                                                                 *)
BuyAmortSchedule(amort_schedule, derived_inputs) ==
  IF amort_schedule = <<>>
  THEN [m \in 1..derived_inputs.horizon_months |->
          [month |-> m, interest |-> 0, principal |-> 0, balance |-> 0]]
  ELSE amort_schedule

points_annual_deduction(user_inputs, derived_inputs) ==
  IF Truthy(user_inputs.points_pct)
  THEN LET total_points == FMul(derived_inputs.loan_amount,
                                user_inputs.points_pct.val)
           amortization_years == Min2(user_inputs.mortgage_term_years, 5)
       IN FDivInt(total_points, amortization_years)
  ELSE 0

(* mutant: past the end of the schedule the last row is read again *)
SchedulePayment_last_row(amort_schedule, month, col) ==
  amort_schedule[Min2(month, Len(amort_schedule))][col]

(* lines 155-161: the month's interest or principal, 0 once the loan is    *)
(* paid off                                                                *)
SchedulePayment(amort_schedule, month, col) ==
  IF month <= Len(amort_schedule) THEN amort_schedule[month][col] ELSE 0

(* one pass of the month loop of calculate_buy_cash_flows *)
BuyRow(user_inputs, derived_inputs, tax_params, amort_schedule, month) ==
  LET home_value ==
        FMul(user_inputs.purchase_price,
             FPow(SCALE + derived_inputs.monthly_appreciation_rate, month - 1))
      interest_payment == SchedulePayment(amort_schedule, month, "interest")
      principal_payment == SchedulePayment(amort_schedule, month, "principal")
      mortgage_payment == interest_payment + principal_payment
      monthly_costs == calculate_monthly_owner_costs(user_inputs, derived_inputs,
                                                     home_value, month)
      tax_shield ==
        calculate_tax_shield(interest_payment, monthly_costs.property_tax,
                             tax_params,
                             FDivInt(points_annual_deduction(user_inputs,
                                                             derived_inputs), 12))
      gross_outflow == mortgage_payment + monthly_costs.total_monthly_costs
      net_outflow == gross_outflow - tax_shield
      true_monthly_cost == interest_payment + monthly_costs.total_monthly_costs
                           - tax_shield
  IN [month |-> month,
      home_value |-> home_value,
      mortgage_interest |-> interest_payment,
      mortgage_principal |-> principal_payment,
      mortgage_payment |-> mortgage_payment,
      property_tax |-> monthly_costs.property_tax,
      insurance_hoa |-> monthly_costs.insurance_hoa,
      maintenance |-> monthly_costs.maintenance,
      other_costs |-> monthly_costs.other_costs,
      pmi |-> monthly_costs.pmi,
      total_other_costs |-> monthly_costs.total_monthly_costs,
      tax_shield |-> tax_shield,
      gross_monthly_outflow |-> gross_outflow,
      net_monthly_outflow |-> net_outflow,
      true_monthly_cost |-> true_monthly_cost,
      cumulative_net_outflow |-> 0,
      cumulative_true_cost |-> 0]

(* df[col].cumsum(), added to a starting amount *)
RECURSIVE CumSum(_, _, _)
CumSum(rows, col, k) ==
  IF k = 0 THEN 0 ELSE CumSum(rows, col, k - 1) + rows[k][col]

Column(rows, col) == [i \in 1..Len(rows) |-> rows[i][col]]

(* mutant: cumulative_net_outflow is seeded with the down payment and the *)
(* closing costs, as cumulative_true_cost is                               *)
BuyCumulative_seeded(user_inputs, derived_inputs, cash_flows) ==
  [i \in 1..Len(cash_flows) |->
     [cash_flows[i] EXCEPT
        !.cumulative_net_outflow =
           derived_inputs.down_payment_amount + user_inputs.closing_costs_buy
           + CumSum(cash_flows, "net_monthly_outflow", i),
        !.cumulative_true_cost =
           derived_inputs.down_payment_amount + user_inputs.closing_costs_buy
           + CumSum(cash_flows, "true_monthly_cost", i)]]

(* the end of calculate_buy_cash_flows (lines 205-214): the two cumulative *)
(* columns are filled in once every row exists                             *)
BuyCumulative(user_inputs, derived_inputs, cash_flows) ==
  LET down_payment_plus_closing == derived_inputs.down_payment_amount
                                   + user_inputs.closing_costs_buy
  IN [i \in 1..Len(cash_flows) |->
        [cash_flows[i] EXCEPT
           !.cumulative_net_outflow =
              CumSum(cash_flows, "net_monthly_outflow", i),
           !.cumulative_true_cost =
              down_payment_plus_closing
              + CumSum(cash_flows, "true_monthly_cost", i)]]

(* mutant: the net equity is returned without the floor at 0 *)
calculate_home_equity_at_exit_unfloored(user_inputs, derived_inputs, exit_month) ==
  LET exit_home_value ==
        FMul(user_inputs.purchase_price,
             FPow(SCALE + derived_inputs.monthly_appreciation_rate,
                  exit_month - 1))
  IN exit_home_value
     - remaining_balance_at_month(derived_inputs.loan_amount,
                                  user_inputs.mortgage_rate,
                                  user_inputs.mortgage_term_years, exit_month)
     - FMul(exit_home_value, user_inputs.selling_cost_pct)

(* mutant: the monthly appreciation rate is applied with the wrong sign *)
calculate_home_equity_at_exit_depreciating(user_inputs, derived_inputs, exit_month) ==
  LET exit_home_value ==
        FMul(user_inputs.purchase_price,
             FPow(SCALE - derived_inputs.monthly_appreciation_rate,
                  exit_month - 1))
  IN Max2(exit_home_value
          - remaining_balance_at_month(derived_inputs.loan_amount,
                                       user_inputs.mortgage_rate,
                                       user_inputs.mortgage_term_years,
                                       exit_month)
          - FMul(exit_home_value, user_inputs.selling_cost_pct), 0)

calculate_home_equity_at_exit(user_inputs, derived_inputs, exit_month) ==
  LET exit_home_value ==
        FMul(user_inputs.purchase_price,
             FPow(SCALE + derived_inputs.monthly_appreciation_rate,
                  exit_month - 1))
      remaining_balance ==
        remaining_balance_at_month(derived_inputs.loan_amount,
                                   user_inputs.mortgage_rate,
                                   user_inputs.mortgage_term_years, exit_month)
      selling_costs == FMul(exit_home_value, user_inputs.selling_cost_pct)
      net_equity == exit_home_value - remaining_balance - selling_costs
  IN Max2(net_equity, 0)

(***************************************************************************)
(* What the caller keeps.  run_full_analysis and the functions under it    *)
(* hold no module-level state: the only thing that outlives a call is what *)
(* the caller keeps of it.  calls is that record: empty, or one completed  *)
(* analysis with its inputs, the stream handed to npf.irr, what npf.irr    *)
(* yielded, and the result.                                                *)
(***************************************************************************)
VARIABLE calls

(***************************************************************************)
(* calc/rent_flow.py                                                       *)
(***************************************************************************)
(* mutant: the portfolio balance lives at module level and is not reset:   *)
(* a later call starts from the balance the recorded call ended with       *)
RentEntry_carried_over(user_inputs, derived_inputs) ==
  [month |-> 1,
   portfolio_balance |->
     IF calls # <<>> THEN calls[1].result.value.investment_portfolio_value
     ELSE derived_inputs.down_payment_amount + user_inputs.closing_costs_buy,
   cash_flows |-> <<>>]

(* The locals of calculate_rent_cash_flows when its loop is entered       *)
(* (lines 27-32): the portfolio starts at down payment + closing costs.    *)
RentEntry(user_inputs, derived_inputs) ==
  [month |-> 1,
   portfolio_balance |-> derived_inputs.down_payment_amount
                         + user_inputs.closing_costs_buy,
   cash_flows |-> <<>>]

(* mutant: .iloc[month] is read instead of .iloc[month - 1] *)
BuyOutflowAt_next(buy_monthly_outflows, month) ==
  IF month + 1 <= Len(buy_monthly_outflows)
  THEN buy_monthly_outflows[month + 1] ELSE 0

(* line 47: the month's buy outflow, 0 past the end of the series *)
BuyOutflowAt(buy_monthly_outflows, month) ==
  IF month <= Len(buy_monthly_outflows) THEN buy_monthly_outflows[month] ELSE 0

(* mutant: the surplus is not floored at 0 *)
MonthlySurplus_unfloored(buy_outflow, total_rent_outflow) ==
  buy_outflow - total_rent_outflow

(* line 48 *)
MonthlySurplus(buy_outflow, total_rent_outflow) ==
  Max2(0, buy_outflow - total_rent_outflow)

(* mutant: the month's surplus is added before the return is applied and  *)
(* earns a return in its own month                                         *)
RentBody_surplus_compounded(user_inputs, derived_inputs, buy_monthly_outflows, loc) ==
  LET month == loc.month
      months_elapsed == month - 1
      current_rent ==
        FMul(user_inputs.rent_today_monthly,
             FPow(SCALE + derived_inputs.monthly_rent_growth_rate,
                  months_elapsed))
      other_costs == user_inputs.other_renter_costs_monthly
      total_rent_outflow == current_rent + other_costs
      buy_outflow == BuyOutflowAt(buy_monthly_outflows, month)
      monthly_surplus == MonthlySurplus(buy_outflow, total_rent_outflow)
      portfolio_balance ==
        FMul(loc.portfolio_balance + monthly_surplus,
             SCALE + derived_inputs.monthly_alt_return_rate)
  IN [month |-> month + 1,
      portfolio_balance |-> portfolio_balance,
      cash_flows |->
        Append(loc.cash_flows,
               [month |-> month,
                rent_payment |-> current_rent,
                other_renter_costs |-> other_costs,
                total_rent_outflow |-> total_rent_outflow,
                monthly_surplus |-> monthly_surplus,
                portfolio_balance |-> portfolio_balance,
                cumulative_rent_outflow |-> 0])]

(* one pass of the month loop (lines 34-61) *)
RentBody(user_inputs, derived_inputs, buy_monthly_outflows, loc) ==
  LET month == loc.month
      months_elapsed == month - 1
      current_rent ==
        FMul(user_inputs.rent_today_monthly,
             FPow(SCALE + derived_inputs.monthly_rent_growth_rate,
                  months_elapsed))
      other_costs == user_inputs.other_renter_costs_monthly
      total_rent_outflow == current_rent + other_costs
      buy_outflow == BuyOutflowAt(buy_monthly_outflows, month)
      monthly_surplus == MonthlySurplus(buy_outflow, total_rent_outflow)
      portfolio_balance ==
        FMul(loc.portfolio_balance,
             SCALE + derived_inputs.monthly_alt_return_rate)
        + monthly_surplus
  IN [month |-> month + 1,
      portfolio_balance |-> portfolio_balance,
      cash_flows |->
        Append(loc.cash_flows,
               [month |-> month,
                rent_payment |-> current_rent,
                other_renter_costs |-> other_costs,
                total_rent_outflow |-> total_rent_outflow,
                monthly_surplus |-> monthly_surplus,
                portfolio_balance |-> portfolio_balance,
                cumulative_rent_outflow |-> 0])]

(* the end of calculate_rent_cash_flows (lines 63-68) *)
RentCumulative(cash_flows) ==
  [i \in 1..Len(cash_flows) |->
     [cash_flows[i] EXCEPT
        !.cumulative_rent_outflow =
           CumSum(cash_flows, "total_rent_outflow", i)]]

(***************************************************************************)
(* calc/metrics.py, continued                                              *)
(***************************************************************************)
(* sum of cash_flows[i] * (1 + r) ** (-i) over the periods i = 0, 1, ...   *)
RECURSIVE NpvSum(_, _, _)
NpvSum(cash_flows, discount_rate_monthly, k) ==
  IF k = 0 THEN 0
  ELSE NpvSum(cash_flows, discount_rate_monthly, k - 1)
       + FMul(cash_flows[k],
              FDiv(SCALE, FPow(SCALE + discount_rate_monthly, k - 1)))

calculate_npv(cash_flows, discount_rate_monthly) ==
  IF cash_flows = <<>> THEN 0
  ELSE NpvSum(cash_flows, discount_rate_monthly, Len(cash_flows))

(* mutant: the sale proceeds are added to the initial entry of the stream *)
IrrCashFlows_equity_upfront(user_inputs, derived_inputs, buy_cash_flows, final_home_equity) ==
  <<final_home_equity - (derived_inputs.down_payment_amount
                         + user_inputs.closing_costs_buy)>>
  \o [i \in 1..Len(buy_cash_flows) |-> -buy_cash_flows[i].net_monthly_outflow]

(* the cash-flow stream calculate_buy_vs_rent_irr hands to calculate_irr *)
IrrCashFlows(user_inputs, derived_inputs, buy_cash_flows, final_home_equity) ==
  LET initial_investment == -(derived_inputs.down_payment_amount
                              + user_inputs.closing_costs_buy)
      cash_flows == <<initial_investment>>
                    \o [i \in 1..Len(buy_cash_flows) |->
                          -buy_cash_flows[i].net_monthly_outflow]
      last == Len(cash_flows)
  IN [cash_flows EXCEPT ![last] = cash_flows[last] + final_home_equity]

calculate_buy_vs_rent_irr(user_inputs, derived_inputs, buy_cash_flows, final_home_equity, npf_irr_outcome) ==
  calculate_irr(npf_irr_outcome)

(***************************************************************************)
(* calc/engine.py                                                          *)
(***************************************************************************)
Mean(rows, col) == FDivInt(CumSum(rows, col, Len(rows)), Len(rows))

(* mutant: the final portfolio value is read from the first row of the    *)
(* rent table, .iloc[0]                                                    *)
AnalysisMetrics_first_row(user_inputs, derived_inputs, buy_cash_flows, rent_cash_flows) ==
  LET final_home_equity ==
        calculate_home_equity_at_exit(user_inputs, derived_inputs,
                                      derived_inputs.horizon_months)
      final_portfolio_value ==
        IF rent_cash_flows # <<>>
        THEN rent_cash_flows[1].portfolio_balance ELSE 0
  IN [derived_inputs |-> derived_inputs,
      buy_cash_flows |-> buy_cash_flows,
      rent_cash_flows |-> rent_cash_flows,
      final_home_equity |-> final_home_equity,
      final_portfolio_value |-> final_portfolio_value,
      npv_buy_costs |->
        calculate_npv(Column(buy_cash_flows, "net_monthly_outflow"),
                      derived_inputs.monthly_inflation_rate),
      npv_rent_costs |->
        calculate_npv(Column(rent_cash_flows, "total_rent_outflow"),
                      derived_inputs.monthly_inflation_rate),
      breakeven_month |->
        calculate_breakeven_month(
          Column(buy_cash_flows, "cumulative_net_outflow"),
          Column(rent_cash_flows, "cumulative_rent_outflow"))]

(* run_full_analysis, lines 40-64: final positions, NPVs and break-even,  *)
(* from the two tables                                                     *)
AnalysisMetrics(user_inputs, derived_inputs, buy_cash_flows, rent_cash_flows) ==
  LET final_home_equity ==
        calculate_home_equity_at_exit(user_inputs, derived_inputs,
                                      derived_inputs.horizon_months)
      final_portfolio_value ==
        IF rent_cash_flows # <<>>
        THEN rent_cash_flows[Len(rent_cash_flows)].portfolio_balance ELSE 0
  IN [derived_inputs |-> derived_inputs,
      buy_cash_flows |-> buy_cash_flows,
      rent_cash_flows |-> rent_cash_flows,
      final_home_equity |-> final_home_equity,
      final_portfolio_value |-> final_portfolio_value,
      npv_buy_costs |->
        calculate_npv(Column(buy_cash_flows, "net_monthly_outflow"),
                      derived_inputs.monthly_inflation_rate),
      npv_rent_costs |->
        calculate_npv(Column(rent_cash_flows, "total_rent_outflow"),
                      derived_inputs.monthly_inflation_rate),
      breakeven_month |->
        calculate_breakeven_month(
          Column(buy_cash_flows, "cumulative_net_outflow"),
          Column(rent_cash_flows, "cumulative_rent_outflow"))]

(* the rest of run_full_analysis (lines 66-113), given what npf.irr yields *)
AnalysisFromIrr(user_inputs, w, npf_irr_outcome) ==
  LET irr_buy == calculate_buy_vs_rent_irr(user_inputs, w.derived_inputs,
                                           w.buy_cash_flows,
                                           w.final_home_equity, npf_irr_outcome)
      buy_empty == w.buy_cash_flows = <<>>
      rent_empty == w.rent_cash_flows = <<>>
      avg_buy_payment ==
        IF ~buy_empty THEN Mean(w.buy_cash_flows, "net_monthly_outflow") ELSE 0
      avg_rent_payment ==
        IF ~rent_empty THEN Mean(w.rent_cash_flows, "total_rent_outflow") ELSE 0
      avg_invested_surplus ==
        IF ~rent_empty THEN Mean(w.rent_cash_flows, "monthly_surplus") ELSE 0
  IN IF w.breakeven_month.raised # "no" THEN Raised(w.breakeven_month.raised)
     ELSE IF irr_buy.raised # "no" THEN Raised(irr_buy.raised)
     ELSE Returned(
       [monthly_buy_payment |-> avg_buy_payment,
        monthly_buy_after_tax |-> avg_buy_payment,
        monthly_rent_payment |-> avg_rent_payment,
        monthly_invested_surplus |-> avg_invested_surplus,
        home_equity_at_exit |-> w.final_home_equity,
        investment_portfolio_value |-> w.final_portfolio_value,
        net_worth_difference |-> w.final_home_equity - w.final_portfolio_value,
        npv_buy_costs |-> w.npv_buy_costs,
        npv_rent_costs |-> w.npv_rent_costs,
        npv_difference |-> w.npv_buy_costs - w.npv_rent_costs,
        irr_buy_investment |-> irr_buy.value,
        breakeven_month |-> w.breakeven_month.value,
        total_interest_paid |->
          IF ~buy_empty
          THEN CumSum(w.buy_cash_flows, "mortgage_interest",
                      Len(w.buy_cash_flows))
          ELSE 0,
        total_tax_shield |->
          IF ~buy_empty
          THEN CumSum(w.buy_cash_flows, "tax_shield", Len(w.buy_cash_flows))
          ELSE 0,
        total_appreciation |->
          IF w.final_home_equity > 0
          THEN w.final_home_equity - w.derived_inputs.down_payment_amount
          ELSE 0])

(***************************************************************************)
(* Inputs.  Amounts are in thousands of currency units scaled by SCALE,    *)
(* rates are decimals scaled by SCALE.                                     *)
(***************************************************************************)
MaxTermYears == 2

MaxHorizonYears == 2

MaxSeriesLen == 3

MaxCost == 2

Pct(k) == k * (SCALE \div 100)

Milli(k) == k * (SCALE \div 1000)

LoanAmounts == {-50 * SCALE, 0, 100 * SCALE, 200 * SCALE + 123457}

AnnualRates == {-Pct(6), 0, Pct(6), Pct(7), Pct(24)}

TermYears == 1..MaxTermYears

Months == (-1)..(MaxTermYears * 12 + 2)

RECURSIVE SeqsUpTo(_, _)
SeqsUpTo(S, n) ==
  IF n = 0 THEN {<<>>}
  ELSE LET shorter == SeqsUpTo(S, n - 1)
       IN shorter \cup {Append(q, x) : q \in {t \in shorter : Len(t) = n - 1},
                                       x \in S}

CostSeries == SeqsUpTo({k * SCALE : k \in 0..MaxCost}, MaxSeriesLen)

MonthlyIrrs == {-SCALE, -Pct(50), -Pct(30), -Milli(5), 0, Milli(5), Pct(20),
                Pct(23), Pct(80)}

NpfIrrOutcomes ==
  {IrrNum(m) : m \in MonthlyIrrs}
  \cup {IrrSpecial(k) : k \in {"None", "nan", "inf", "-inf", "ValueError"}}

BaseInputs ==
  [purchase_price |-> 300 * SCALE,
   down_payment_pct |-> Pct(20),
   closing_costs_buy |-> 6 * SCALE,
   mortgage_rate |-> Pct(6),
   mortgage_term_years |-> 2,
   points_pct |-> None,
   property_tax_rate |-> Milli(12),
   insurance_hoa_annual |-> Milli(1200),
   maintenance_pct |-> Milli(15),
   other_owner_costs_annual |-> Milli(600),
   annual_appreciation |-> Pct(3),
   selling_cost_pct |-> Pct(6),
   rent_today_monthly |-> Milli(1500),
   rent_growth_pct |-> Pct(3),
   other_renter_costs_monthly |-> Milli(50),
   alt_return_annual |-> Pct(7),
   inflation_discount_annual |-> Pct(3),
   horizon_years |-> 2,
   pmi_threshold_pct |-> Some(Pct(20)),
   pmi_annual_pct |-> Some(Milli(5))]

UserInputsSet ==
  {[BaseInputs EXCEPT !.purchase_price = price,
                      !.down_payment_pct = down,
                      !.mortgage_term_years = term,
                      !.horizon_years = horizon,
                      !.rent_today_monthly = rent,
                      !.points_pct = points,
                      !.pmi_annual_pct = pmi] :
     price \in {50 * SCALE, 300 * SCALE},
     down \in {Pct(20), SCALE},
     term \in TermYears,
     horizon \in 1..MaxHorizonYears,
     rent \in {Milli(1500), Milli(2500)},
     points \in {None, Some(Pct(1))},
     pmi \in {None, Some(Milli(5))}}

TaxParamsSet ==
  {[federal_marginal_rate |-> Pct(22), state_marginal_rate |-> Pct(6),
    salt_cap |-> 10 * SCALE, standard_deduction |-> Milli(14600)],
   [federal_marginal_rate |-> Pct(24), state_marginal_rate |-> Pct(6),
    salt_cap |-> 10 * SCALE, standard_deduction |-> Milli(29200)]}

(* monthly interest, monthly property tax and points deduction handed to  *)
(* calculate_tax_shield, and the tax parameters it must tolerate: rates    *)
(* in [0, 1], non-negative cap and deduction                               *)
MonthlyInterests == {0, Milli(500), SCALE}

MonthlyPropertyTaxes == {0, Milli(500), SCALE, 2 * SCALE}

PointsDeductions == {0, Milli(300)}

MarginalRates == {0, Pct(6), Pct(24), SCALE}

TolerableTaxParams ==
  {[federal_marginal_rate |-> fed, state_marginal_rate |-> st,
    salt_cap |-> cap, standard_deduction |-> std] :
     fed \in MarginalRates, st \in {0, Pct(6), SCALE},
     cap \in {0, 10 * SCALE}, std \in {0, Milli(14600)}}

(* inputs of a direct call of calculate_rent_cash_flows: any buy outflow   *)
(* series, also negative, empty or shorter than the horizon, and an        *)
(* alternative return that may be 0                                        *)
RentCallInputs ==
  {[BaseInputs EXCEPT !.down_payment_pct = down,
                      !.closing_costs_buy = closing,
                      !.alt_return_annual = alt,
                      !.horizon_years = 1] :
     down \in {0, Pct(20)}, closing \in {0, 6 * SCALE},
     alt \in {0, Pct(7)}}

BuyOutflowSeries ==
  {<<>>,
   [i \in 1..3 |-> 5 * SCALE],
   [i \in 1..12 |-> -SCALE],
   [i \in 1..12 |-> Milli(1550)],
   [i \in 1..12 |-> IF i % 2 = 0 THEN 4 * SCALE ELSE SCALE],
   [i \in 1..12 |-> 3 * SCALE - i * Milli(200)]}

(* inputs of a direct call of calculate_home_equity_at_exit: from no down  *)
(* payment to a cash purchase, selling costs up to the whole sale price    *)
EquityCallInputs ==
  {[BaseInputs EXCEPT !.down_payment_pct = down,
                      !.selling_cost_pct = selling,
                      !.annual_appreciation = apprec,
                      !.mortgage_term_years = term] :
     down \in {0, Pct(20), SCALE}, selling \in {0, Pct(6), SCALE},
     apprec \in {0, Pct(3)}, term \in TermYears}

ExitMonths == 1..(MaxTermYears * 12 + 2)

(* End-to-end scenario 1 of the integration tests (test_full_analysis.py   *)
(* lines 24-37), every other input at its UserInputs default.  Amounts of  *)
(* this scenario are in units of 10,000: 80 is a price of 800,000.         *)
Scenario1Inputs ==
  [purchase_price |-> 80 * SCALE,
   down_payment_pct |-> Pct(20),
   closing_costs_buy |-> 0,
   mortgage_rate |-> Pct(6),
   mortgage_term_years |-> 30,
   points_pct |-> None,
   property_tax_rate |-> Milli(12),
   insurance_hoa_annual |-> 0,
   maintenance_pct |-> Milli(15),
   other_owner_costs_annual |-> 0,
   annual_appreciation |-> Pct(4),
   selling_cost_pct |-> Pct(6),
   rent_today_monthly |-> Milli(400),
   rent_growth_pct |-> Pct(3),
   other_renter_costs_monthly |-> 0,
   alt_return_annual |-> Pct(7),
   inflation_discount_annual |-> Pct(3),
   horizon_years |-> 10,
   pmi_threshold_pct |-> Some(Pct(20)),
   pmi_annual_pct |-> Some(Milli(5))]

(* get_tax_params("NYC, NY", "married") from the defaults of tax_lookup.py *)
(* (lines 29 and 34): 24% federal, 6.5% state, SALT cap 10,000, standard   *)
(* deduction max(29,200, 16,050); and the same with a local rate on top of *)
(* the state's, as lines 482-496 add one when the tax data has it          *)
MarriedNYCTaxParams ==
  {[federal_marginal_rate |-> Pct(24), state_marginal_rate |-> st,
    salt_cap |-> SCALE, standard_deduction |-> Milli(2920)] :
     st \in {Milli(65), Milli(65) + Milli(39)}}

(* the analyses the caller keeps a record of and repeats, each at no       *)
(* appreciation and at 3%: a financed purchase with points and PMI, and a  *)
(* purchase with nothing down on a 30-year loan, sold after one year       *)
FinancedPurchase(apprec) ==
  [BaseInputs EXCEPT !.points_pct = Some(Pct(1)),
                     !.mortgage_term_years = 1,
                     !.annual_appreciation = apprec]

NothingDownPurchase(apprec) ==
  [BaseInputs EXCEPT !.purchase_price = 200 * SCALE,
                     !.down_payment_pct = 0,
                     !.mortgage_term_years = 30,
                     !.horizon_years = 1,
                     !.annual_appreciation = apprec]

(* a purchase with nothing down whose monthly outflow is below the rent,   *)
(* without and with closing costs                                          *)
CheaperToOwn(closing) ==
  [NothingDownPurchase(Pct(3)) EXCEPT !.rent_today_monthly = Milli(2500),
                                      !.closing_costs_buy = closing]

RecordedAnalyses ==
  {<<user_inputs,
     [federal_marginal_rate |-> Pct(22), state_marginal_rate |-> Pct(6),
      salt_cap |-> 10 * SCALE, standard_deduction |-> Milli(14600)]>> :
     user_inputs \in {FinancedPurchase(0), FinancedPurchase(Pct(3)),
                      NothingDownPurchase(0), NothingDownPurchase(Pct(3)),
                      CheaperToOwn(0), CheaperToOwn(6 * SCALE)}}

(* scenario 1 with one mortgage point paid upfront (points_pct = 0.01): a  *)
(* 30-year loan held for 10 years, so that the horizon runs past the       *)
(* 5-year amortization window of the points                                *)
Scenario1WithPoints == [Scenario1Inputs EXCEPT !.points_pct = Some(Pct(1))]

(* purchases with a PMI rate and a PMI threshold both set: a threshold of  *)
(* 0 (models.py line 43 allows ge=0) and one the loan-to-value ratio       *)
(* crosses within the horizon                                              *)
PmiInputs ==
  {[BaseInputs EXCEPT !.pmi_threshold_pct = Some(threshold)] :
     threshold \in {0, Pct(50)}}

(***************************************************************************)
(* ui/sharing.py                                                           *)
(***************************************************************************)
(* the Optional fields of UserInputs and their defaults (models.py lines   *)
(* 24, 43 and 44)                                                          *)
FieldDefaults ==
  [points_pct |-> None,
   pmi_threshold_pct |-> Some(Pct(20)),
   pmi_annual_pct |-> Some(Milli(5))]

(* user_inputs.model_dump(exclude_none=True), line 23: the fields that are *)
(* not None, with their values                                             *)
ModelDumpExcludeNone(user_inputs) ==
  [f \in {g \in DOMAIN user_inputs :
            g \in DOMAIN FieldDefaults => user_inputs[g].some} |->
     IF f \in DOMAIN FieldDefaults THEN user_inputs[f].val ELSE user_inputs[f]]

(* json.dumps and urlsafe_b64encode (lines 26-27): the text of a JSON      *)
(* object, one "key": value member per entry of the dict                   *)
JsonDumps(inputs_dict) == {<<f, inputs_dict[f]>> : f \in DOMAIN inputs_dict}

(* urlsafe_b64decode and json.loads (lines 55-56) *)
JsonLoads(text) ==
  [f \in {member[1] : member \in text} |->
     (CHOOSE member \in text : member[1] = f)[2]]

(* the 'shared' parameter of the URL encode_inputs_to_url returns *)
encode_inputs_to_url(user_inputs) == JsonDumps(ModelDumpExcludeNone(user_inputs))

(* the UserInputs built from inputs_dict, line 59: a field the dict lacks  *)
(* takes its default; a required field that is missing fails validation    *)
UserInputsFromDict(inputs_dict) ==
  [f \in DOMAIN BaseInputs |->
     IF f \in DOMAIN inputs_dict
     THEN IF f \in DOMAIN FieldDefaults
          THEN Some(inputs_dict[f]) ELSE inputs_dict[f]
     ELSE FieldDefaults[f]]

(* lines 53-64: None when the object cannot be built *)
decode_url_to_inputs(encoded_params) ==
  LET inputs_dict == JsonLoads(encoded_params)
  IN IF (DOMAIN BaseInputs \ DOMAIN FieldDefaults) \subseteq DOMAIN inputs_dict
     THEN Some(UserInputsFromDict(inputs_dict))
     ELSE None

(* the scenarios that are shared: each Optional field set or None *)
SharedInputs ==
  {[BaseInputs EXCEPT !.points_pct = points,
                      !.pmi_threshold_pct = threshold,
                      !.pmi_annual_pct = pmi,
                      !.horizon_years = horizon] :
     points \in {None, Some(Pct(1))},
     threshold \in {None, Some(Pct(20)), Some(Pct(10))},
     pmi \in {None, Some(Milli(5)), Some(Pct(1))},
     horizon \in 1..MaxHorizonYears}

(* the (user_inputs, tax_params) pairs run_full_analysis is called with *)
AnalysisInputs ==
  (UserInputsSet \X TaxParamsSet)
  \cup ({Scenario1Inputs} \X MarriedNYCTaxParams)
  \cup RecordedAnalyses
  \cup (PmiInputs \X TaxParamsSet)
  \cup {<<Scenario1WithPoints, CHOOSE tp \in MarriedNYCTaxParams :
                                 tp.state_marginal_rate = Milli(65)>>}

(***************************************************************************)
(* The caller.  One call is in progress at a time; pc is the position      *)
(* inside it.  The loops of amortize, calculate_buy_cash_flows and         *)
(* calculate_rent_cash_flows advance one pass per step, their locals held  *)
(* in amort, buy and rent; work holds the locals of run_full_analysis.     *)
(***************************************************************************)
VARIABLES pc, op, args, amort, buy, rent, work, ret

vars == <<pc, op, args, amort, buy, rent, work, ret, calls>>

Nothing == [nothing |-> TRUE]

Init ==
  /\ pc = "idle"
  /\ op = "none"
  /\ args = Nothing
  /\ amort = Nothing
  /\ buy = Nothing
  /\ rent = Nothing
  /\ work = Nothing
  /\ ret = Nothing
  /\ calls = <<>>

(* amortize(loan_amount, rate_annual, term_years) is called *)
CallAmortize ==
  /\ pc = "idle"
  /\ \E loan \in LoanAmounts, rate \in AnnualRates, term \in TermYears :
       /\ args' = [loan_amount |-> loan, rate_annual |-> rate,
                   term_years |-> term]
       /\ amort' = AmortizeEntry(loan, rate, term)
  /\ op' = "amortize"
  /\ pc' = "amortize"
  /\ UNCHANGED <<buy, rent, work, ret, calls>>

AmortizeStep ==
  /\ pc = "amortize"
  /\ amort.m <= amort.n
  /\ amort' = AmortizeBody(amort)
  /\ UNCHANGED <<pc, op, args, buy, rent, work, ret, calls>>

AmortizeReturn ==
  /\ pc = "amortize"
  /\ op = "amortize"
  /\ amort.m > amort.n
  /\ ret' = Returned(amort.rows)
  /\ pc' = "done"
  /\ UNCHANGED <<op, args, amort, buy, rent, work, calls>>

CallRemainingBalance ==
  /\ pc = "idle"
  /\ \E loan \in LoanAmounts, rate \in AnnualRates, term \in TermYears,
        month \in Months :
       /\ args' = [loan_amount |-> loan, rate_annual |-> rate,
                   term_years |-> term, month |-> month]
       /\ ret' = Returned(remaining_balance_at_month(loan, rate, term, month))
  /\ op' = "remaining_balance_at_month"
  /\ pc' = "done"
  /\ UNCHANGED <<amort, buy, rent, work, calls>>

CallBreakeven ==
  /\ pc = "idle"
  /\ \E b \in CostSeries, r \in CostSeries :
       /\ args' = [buy_cumulative_costs |-> b, rent_cumulative_costs |-> r]
       /\ ret' = calculate_breakeven_month(b, r)
  /\ op' = "calculate_breakeven_month"
  /\ pc' = "done"
  /\ UNCHANGED <<amort, buy, rent, work, calls>>

CallIrr ==
  /\ pc = "idle"
  /\ \E outcome \in NpfIrrOutcomes :
       /\ args' = [npf_irr |-> outcome]
       /\ ret' = calculate_irr(outcome)
  /\ op' = "calculate_irr"
  /\ pc' = "done"
  /\ UNCHANGED <<amort, buy, rent, work, calls>>

CallTaxShield ==
  /\ pc = "idle"
  /\ \E mi \in MonthlyInterests, pt \in MonthlyPropertyTaxes,
        tp \in TolerableTaxParams, pd \in PointsDeductions :
       /\ args' = [mortgage_interest |-> mi, property_tax |-> pt,
                   tax_params |-> tp, points_deduction |-> pd]
       /\ ret' = Returned(calculate_tax_shield(mi, pt, tp, pd))
  /\ op' = "calculate_tax_shield"
  /\ pc' = "done"
  /\ UNCHANGED <<amort, buy, rent, work, calls>>

(* run_full_analysis is called: derived inputs, then calculate_buy_cash_   *)
(* flows calls amortize                                                    *)
StartAnalysis ==
  /\ pc = "idle"
  /\ \E inputs \in AnalysisInputs :
       LET user_inputs == inputs[1]
           tax_params == inputs[2]
           derived_inputs == from_user_inputs(user_inputs)
       IN /\ calls # <<>> => inputs \in RecordedAnalyses
          /\ args' = [user_inputs |-> user_inputs, tax_params |-> tax_params]
          /\ work' = [derived_inputs |-> derived_inputs]
          /\ amort' = AmortizeEntry(derived_inputs.loan_amount,
                                    user_inputs.mortgage_rate,
                                    user_inputs.mortgage_term_years)
  /\ op' = "run_full_analysis"
  /\ pc' = "amortize"
  /\ UNCHANGED <<buy, rent, ret, calls>>

(* get_detailed_cash_flows is called (engine.py lines 130-133); the app    *)
(* asks for the tables of the scenario it has just analysed (app.py lines  *)
(* 140-143)                                                                *)
StartDetailedCashFlows ==
  /\ pc = "idle"
  /\ \E inputs \in RecordedAnalyses :
       LET user_inputs == inputs[1]
           tax_params == inputs[2]
           derived_inputs == from_user_inputs(user_inputs)
       IN /\ calls # <<>> => inputs = <<calls[1].user_inputs,
                                        calls[1].tax_params>>
          /\ args' = [user_inputs |-> user_inputs, tax_params |-> tax_params]
          /\ work' = [derived_inputs |-> derived_inputs]
          /\ amort' = AmortizeEntry(derived_inputs.loan_amount,
                                    user_inputs.mortgage_rate,
                                    user_inputs.mortgage_term_years)
  /\ op' = "get_detailed_cash_flows"
  /\ pc' = "amortize"
  /\ UNCHANGED <<buy, rent, ret, calls>>

(* amortize returns to calculate_buy_cash_flows, whose month loop starts *)
BuyEnter ==
  /\ pc = "amortize"
  /\ op \in {"run_full_analysis", "get_detailed_cash_flows"}
  /\ amort.m > amort.n
  /\ buy' = [amort_schedule |-> BuyAmortSchedule(amort.rows,
                                                 work.derived_inputs),
             month |-> 1,
             cash_flows |-> <<>>]
  /\ pc' = "buy"
  /\ UNCHANGED <<op, args, amort, rent, work, ret, calls>>

BuyStep ==
  /\ pc = "buy"
  /\ buy.month <= work.derived_inputs.horizon_months
  /\ buy' = [buy EXCEPT
               !.month = buy.month + 1,
               !.cash_flows =
                  Append(buy.cash_flows,
                         BuyRow(args.user_inputs, work.derived_inputs,
                                args.tax_params, buy.amort_schedule,
                                buy.month))]
  /\ UNCHANGED <<pc, op, args, amort, rent, work, ret, calls>>

(* calculate_buy_cash_flows returns; calculate_rent_cash_flows starts *)
BuyReturn ==
  /\ pc = "buy"
  /\ buy.month > work.derived_inputs.horizon_months
  /\ buy' = [buy EXCEPT
               !.cash_flows = BuyCumulative(args.user_inputs,
                                            work.derived_inputs,
                                            buy.cash_flows)]
  /\ rent' = RentEntry(args.user_inputs, work.derived_inputs)
  /\ pc' = "rent"
  /\ UNCHANGED <<op, args, amort, work, ret, calls>>

CallHomeEquity ==
  /\ pc = "idle"
  /\ \E user_inputs \in EquityCallInputs, exit_month \in ExitMonths :
       /\ args' = [user_inputs |-> user_inputs, exit_month |-> exit_month]
       /\ work' = [derived_inputs |-> from_user_inputs(user_inputs)]
       /\ ret' = Returned(
                   calculate_home_equity_at_exit(user_inputs,
                                                 from_user_inputs(user_inputs),
                                                 exit_month))
  /\ op' = "calculate_home_equity_at_exit"
  /\ pc' = "done"
  /\ UNCHANGED <<amort, buy, rent, calls>>

(* calculate_rent_cash_flows(user_inputs, derived_inputs,                  *)
(* buy_monthly_outflows) is called on its own                              *)
CallRentCashFlows ==
  /\ pc = "idle"
  /\ \E user_inputs \in RentCallInputs, series \in BuyOutflowSeries :
       /\ args' = [user_inputs |-> user_inputs,
                   buy_monthly_outflows |-> series]
       /\ work' = [derived_inputs |-> from_user_inputs(user_inputs)]
       /\ rent' = RentEntry(user_inputs, from_user_inputs(user_inputs))
  /\ op' = "calculate_rent_cash_flows"
  /\ pc' = "rent"
  /\ UNCHANGED <<amort, buy, ret, calls>>

(* the buy_monthly_outflows argument of the call in progress: in           *)
(* run_full_analysis (engine.py line 37) the net outflow column            *)
RentBuyOutflows ==
  IF op \in {"run_full_analysis", "get_detailed_cash_flows"}
  THEN Column(buy.cash_flows, "net_monthly_outflow")
  ELSE args.buy_monthly_outflows

RentStep ==
  /\ pc = "rent"
  /\ rent.month <= work.derived_inputs.horizon_months
  /\ rent' = RentBody(args.user_inputs, work.derived_inputs,
                      RentBuyOutflows, rent)
  /\ UNCHANGED <<pc, op, args, amort, buy, work, ret, calls>>

(* a direct call returns its table *)
RentReturnToCaller ==
  /\ pc = "rent"
  /\ op = "calculate_rent_cash_flows"
  /\ rent.month > work.derived_inputs.horizon_months
  /\ rent' = [rent EXCEPT !.cash_flows = RentCumulative(rent.cash_flows)]
  /\ ret' = Returned(RentCumulative(rent.cash_flows))
  /\ pc' = "done"
  /\ UNCHANGED <<op, args, amort, buy, work, calls>>

RentReturn ==
  /\ pc = "rent"
  /\ op = "run_full_analysis"
  /\ rent.month > work.derived_inputs.horizon_months
  /\ rent' = [rent EXCEPT !.cash_flows = RentCumulative(rent.cash_flows)]
  /\ pc' = "metrics"
  /\ UNCHANGED <<op, args, amort, buy, work, ret, calls>>

(* get_detailed_cash_flows returns the two tables and the derived inputs   *)
(* (engine.py lines 141-145)                                               *)
DetailedReturn ==
  /\ pc = "rent"
  /\ op = "get_detailed_cash_flows"
  /\ rent.month > work.derived_inputs.horizon_months
  /\ rent' = [rent EXCEPT !.cash_flows = RentCumulative(rent.cash_flows)]
  /\ ret' = Returned([buy |-> buy.cash_flows,
                      rent |-> RentCumulative(rent.cash_flows),
                      derived_inputs |-> work.derived_inputs])
  /\ pc' = "done"
  /\ UNCHANGED <<op, args, amort, buy, work, calls>>

(* display_share_button (sharing.py lines 95-101): the share URL of the    *)
(* current inputs is generated and shown                                   *)
ShareAnalysis ==
  /\ pc = "idle"
  /\ \E user_inputs \in SharedInputs :
       /\ args' = [user_inputs |-> user_inputs]
       /\ work' = [shared |-> encode_inputs_to_url(user_inputs)]
  /\ op' = "share"
  /\ pc' = "shared"
  /\ UNCHANGED <<amort, buy, rent, ret, calls>>

(* check_for_shared_analysis (lines 78-80): the link is opened and its     *)
(* 'shared' parameter decoded                                              *)
OpenSharedLink ==
  /\ pc = "shared"
  /\ ret' = Returned(decode_url_to_inputs(work.shared))
  /\ pc' = "done"
  /\ UNCHANGED <<op, args, amort, buy, rent, work, calls>>

(* run_full_analysis, lines 40-64 *)
Metrics ==
  /\ pc = "metrics"
  /\ work' = AnalysisMetrics(args.user_inputs, work.derived_inputs,
                             buy.cash_flows, rent.cash_flows)
  /\ pc' = "irr"
  /\ UNCHANGED <<op, args, amort, buy, rent, ret, calls>>

(* the stream run_full_analysis hands to npf.irr (metrics.py 113-125) *)
AnalysisIrrStream ==
  IrrCashFlows(args.user_inputs, work.derived_inputs, work.buy_cash_flows,
               work.final_home_equity)

(* npf.irr is a function of its argument: on a stream it was given before  *)
(* it yields what it yielded then                                          *)
NpfIrrIsAFunction(stream, outcome) ==
  \A i \in 1..Len(calls) :
    calls[i].irr_cash_flows = stream => outcome = calls[i].npf_irr

(* run_full_analysis, lines 66-113: the IRR, whatever npf.irr yields on    *)
(* the stream, and the summary                                             *)
FinishAnalysis ==
  /\ pc = "irr"
  /\ \E outcome \in NpfIrrOutcomes :
       /\ NpfIrrIsAFunction(AnalysisIrrStream, outcome)
       /\ args' = [user_inputs |-> args.user_inputs,
                   tax_params |-> args.tax_params, npf_irr |-> outcome]
       /\ ret' = AnalysisFromIrr(args.user_inputs, work, outcome)
  /\ pc' = "done"
  /\ UNCHANGED <<op, amort, buy, rent, work, calls>>

(* what the caller keeps of the call that returns: the first analysis of  *)
(* one of the recorded inputs                                              *)
CallsAfterReturn ==
  IF /\ op = "run_full_analysis"
     /\ calls = <<>>
     /\ <<args.user_inputs, args.tax_params>> \in RecordedAnalyses
  THEN <<[user_inputs |-> args.user_inputs,
          tax_params |-> args.tax_params,
          irr_cash_flows |-> AnalysisIrrStream,
          npf_irr |-> args.npf_irr,
          result |-> ret]>>
  ELSE calls

Return ==
  /\ pc = "done"
  /\ calls' = CallsAfterReturn
  /\ pc' = "idle"
  /\ op' = "none"
  /\ args' = Nothing
  /\ amort' = Nothing
  /\ buy' = Nothing
  /\ rent' = Nothing
  /\ work' = Nothing
  /\ ret' = Nothing

Next ==
  \/ CallAmortize
  \/ AmortizeStep
  \/ AmortizeReturn
  \/ CallRemainingBalance
  \/ CallBreakeven
  \/ CallIrr
  \/ CallTaxShield
  \/ StartAnalysis
  \/ StartDetailedCashFlows
  \/ BuyEnter
  \/ BuyStep
  \/ BuyReturn
  \/ CallHomeEquity
  \/ CallRentCashFlows
  \/ RentStep
  \/ RentReturnToCaller
  \/ RentReturn
  \/ DetailedReturn
  \/ Metrics
  \/ FinishAnalysis
  \/ ShareAnalysis
  \/ OpenSharedLink
  \/ Return

Spec == Init /\ [][Next]_vars

(***************************************************************************)
(* Properties.                                                             *)
(***************************************************************************)
BreakevenDone == pc = "done" /\ op = "calculate_breakeven_month"

SameLength == Len(args.buy_cumulative_costs) = Len(args.rent_cumulative_costs)

(* k is the first month at which buy no longer exceeds rent *)
IsFirstMonth(b, r, k) ==
  /\ k \in 1..Len(b)
  /\ b[k] <= r[k]
  /\ \A j \in 1..(k - 1) : b[j] > r[j]

AnalysisHasBreakeven ==
  /\ op = "run_full_analysis"
  /\ pc \in {"irr", "done"}
  /\ work.breakeven_month.value.some

(* C1: whenever calculate_breakeven_month returns a month k for two series *)
(* of equal length, cumulative buy cost at k is <= cumulative rent cost at *)
(* k and at every earlier month buy cost is > rent cost; the same holds of *)
(* the break-even month run_full_analysis computes from its two tables.    *)
C1_BreakevenIsFirstMonth ==
  /\ (BreakevenDone /\ SameLength /\ ret.value.some)
       => IsFirstMonth(args.buy_cumulative_costs, args.rent_cumulative_costs,
                       ret.value.val)
  /\ AnalysisHasBreakeven
       => IsFirstMonth(Column(buy.cash_flows, "cumulative_net_outflow"),
                       Column(rent.cash_flows, "cumulative_rent_outflow"),
                       work.breakeven_month.value.val)

C1_Witness ==
  /\ BreakevenDone
  /\ SameLength
  /\ ret.value.some
  /\ ret.value.val >= 2
  /\ args.buy_cumulative_costs[ret.value.val]
       = args.rent_cumulative_costs[ret.value.val]

(* C2: calculate_breakeven_month returns None when no month of the horizon *)
(* has cumulative buy cost <= cumulative rent cost, and also when the two  *)
(* series differ in length.                                                *)
C2_NoBreakevenIsNone ==
  (/\ BreakevenDone
   /\ \/ ~SameLength
      \/ \A i \in 1..Len(args.buy_cumulative_costs) :
           args.buy_cumulative_costs[i] > args.rent_cumulative_costs[i])
    => ret.value = None

C2_Witness ==
  /\ BreakevenDone
  /\ ~SameLength
  /\ Len(args.buy_cumulative_costs) >= 1
  /\ Len(args.rent_cumulative_costs) >= 1
  /\ args.buy_cumulative_costs[1] <= args.rent_cumulative_costs[1]
  /\ ret.value = None

(* C3, as stated: series of mismatched lengths make calculate_breakeven_   *)
(* month raise an exception.                                               *)
C3_MismatchRaises ==
  (BreakevenDone /\ ~SameLength) => ret.raised # "no"

(* C3, amended: series of mismatched lengths raise nothing; the call       *)
(* completes normally and its result is None.                              *)
C3_MismatchReturnsNone ==
  (BreakevenDone /\ ~SameLength) => ret = Returned(None)

C3_Witness ==
  /\ BreakevenDone
  /\ Len(args.buy_cumulative_costs) = 2
  /\ Len(args.rent_cumulative_costs) = 3
  /\ ret.raised = "no"

IrrDone == pc = "done" /\ op = "calculate_irr"

InBand(x) == IrrLow <= x /\ x <= IrrHigh

(* what C4 requires of a result res, given the outcome o of the root-finder *)
IrrContract(o, res) ==
  /\ res.raised = "no"
  /\ res.value.some =>
       /\ o.kind = "num"
       /\ res.value.val = FPow(SCALE + o.val, 12) - SCALE
       /\ InBand(res.value.val)
  /\ (o.kind # "num" \/ ~InBand(FPow(SCALE + o.val, 12) - SCALE))
       => res.value = None
  /\ (o.kind = "num" /\ InBand(FPow(SCALE + o.val, 12) - SCALE))
       => res.value.some

(* C4: calculate_irr never returns an annualized IRR outside [-0.99, 10];  *)
(* when the root-finder fails, yields None/NaN/infinity, or the annualized *)
(* value is outside the band, the result is None; otherwise it is exactly  *)
(* (1 + monthly_irr)^12 - 1.  The same holds of irr_buy_investment.        *)
C4_IrrWithinBandOrNone ==
  /\ IrrDone => IrrContract(args.npf_irr, ret)
  /\ (pc = "done" /\ op = "run_full_analysis" /\ ret.raised = "no")
       => IrrContract(args.npf_irr,
                      Returned(ret.value.irr_buy_investment))

C4_Witness ==
  /\ IrrDone
  /\ args.npf_irr.kind = "num"
  /\ FPow(SCALE + args.npf_irr.val, 12) - SCALE > IrrHigh
  /\ ret.value = None

AnalysisDone == pc = "done" /\ op = "run_full_analysis"

OptionalFields == {"irr_buy_investment", "breakeven_month"}

RequiredFields ==
  {"monthly_buy_payment", "monthly_buy_after_tax", "monthly_rent_payment",
   "monthly_invested_surplus", "home_equity_at_exit",
   "investment_portfolio_value", "net_worth_difference", "npv_buy_costs",
   "npv_rent_costs", "npv_difference", "total_interest_paid",
   "total_tax_shield", "total_appreciation"}

(* C5: run_full_analysis completes without raising and returns a           *)
(* CalculationResults with every non-optional field populated, also when   *)
(* the IRR is undefined or the break-even month is never reached.          *)
C5_AnalysisAlwaysCompletes ==
  AnalysisDone =>
    /\ ret.raised = "no"
    /\ DOMAIN ret.value = RequiredFields \cup OptionalFields
    /\ \A f \in RequiredFields : ret.value[f] \in Int
    /\ \A f \in OptionalFields : ret.value[f] \in [some : BOOLEAN, val : Int]

C5_Witness ==
  /\ AnalysisDone
  /\ args.npf_irr.kind = "ValueError"
  /\ ret.raised = "no"
  /\ ret.value.irr_buy_investment = None
  /\ ret.value.breakeven_month = None
  /\ ret.value.total_interest_paid > 0

AmortizeDone == pc = "done" /\ op = "amortize"

(* one currency unit, the tolerance of the amortization tests *)
OneUnit == SCALE

(* one hundredth of a currency unit *)
OneCent == SCALE \div 100

(* C6: for loan_amount > 0 and term_years >= 1 amortize returns exactly    *)
(* term_years*12 rows, months 1..n in increasing order, and in every row   *)
(* interest + principal is the same level payment, so that the payments    *)
(* sum to n times that payment.                                            *)
C6_ScheduleShape ==
  (AmortizeDone /\ args.loan_amount > 0) =>
    LET rows == ret.value
        n == args.term_years * 12
        pmt == LevelPayment(args.loan_amount, args.rate_annual, args.term_years)
    IN /\ Len(rows) = n
       /\ \A i \in 1..Len(rows) :
            /\ rows[i].month = i
            /\ rows[i].interest + rows[i].principal = pmt
       /\ total_payments(rows).total_payments = n * pmt

C6_Witness ==
  /\ AmortizeDone
  /\ args.loan_amount > 0
  /\ args.term_years = 2
  /\ Len(ret.value) = 24
  /\ ret.value[24].interest > 0

RemainingBalanceDone == pc = "done" /\ op = "remaining_balance_at_month"

(* C8: remaining_balance_at_month returns exactly 0 whenever               *)
(* loan_amount <= 0, or month <= 0, or month > term_years*12, whatever the *)
(* other arguments are.                                                    *)
C8_ZeroOutsideTheLoan ==
  (/\ RemainingBalanceDone
   /\ \/ args.loan_amount <= 0
      \/ args.month <= 0
      \/ args.month > args.term_years * 12)
    => ret.value = 0

C8_Witness ==
  /\ RemainingBalanceDone
  /\ args.loan_amount > 0
  /\ args.rate_annual > 0
  /\ args.month = 0
  /\ ret.value = 0

(* C9: for loan_amount > 0 and every month m in 1..term_years*12, the      *)
(* closed-form remaining_balance_at_month(loan, rate, term, m) equals the  *)
(* balance of row m of amortize(loan, rate, term), within one cent.        *)
C9_ClosedFormMatchesSchedule ==
  (AmortizeDone /\ args.loan_amount > 0) =>
    \A m \in 1..Len(ret.value) :
      Abs(remaining_balance_at_month(args.loan_amount, args.rate_annual,
                                     args.term_years, m)
          - ret.value[m].balance) <= OneCent

C9_Witness ==
  /\ AmortizeDone
  /\ args.loan_amount > 0
  /\ args.rate_annual > 0
  /\ Len(ret.value) = 24
  /\ ret.value[12].balance > OneUnit
  /\ Abs(remaining_balance_at_month(args.loan_amount, args.rate_annual,
                                    args.term_years, 12)
         - ret.value[12].balance) <= OneCent

(* C10: for loan_amount > 0 and a positive rate, remaining_balance_at_     *)
(* month is strictly decreasing in the month over 1..term_years*12 and is  *)
(* 0 at the last month.                                                    *)
C10_StrictlyDecreasingToZero ==
  (/\ RemainingBalanceDone
   /\ args.loan_amount > 0
   /\ args.rate_annual > 0
   /\ args.month \in 1..(args.term_years * 12))
    => /\ \A m2 \in (args.month + 1)..(args.term_years * 12) :
            remaining_balance_at_month(args.loan_amount, args.rate_annual,
                                       args.term_years, m2) < ret.value
       /\ args.month = args.term_years * 12 => ret.value = 0

C10_Witness ==
  /\ RemainingBalanceDone
  /\ args.loan_amount > 0
  /\ args.rate_annual > 0
  /\ args.month = args.term_years * 12 - 1
  /\ ret.value > 0
  /\ remaining_balance_at_month(args.loan_amount, args.rate_annual,
                                args.term_years, args.month + 1) = 0

TaxShieldDone == pc = "done" /\ op = "calculate_tax_shield"

(* 12 * monthly interest + min(12 * monthly property tax, salt_cap)        *)
(* + points deduction                                                      *)
TotalItemizable(mi, pt, tp, pd) ==
  12 * mi + (IF 12 * pt < tp.salt_cap THEN 12 * pt ELSE tp.salt_cap) + pd

ArgsItemizable ==
  TotalItemizable(args.mortgage_interest, args.property_tax, args.tax_params,
                  args.points_deduction)

ArgsCombinedRate ==
  args.tax_params.federal_marginal_rate + args.tax_params.state_marginal_rate

(* C11: calculate_tax_shield returns exactly 0 whenever total_itemizable   *)
(* is <= standard_deduction, and otherwise (total_itemizable -             *)
(* standard_deduction) * (federal + state marginal rate) / 12.             *)
C11_TaxShieldValue ==
  TaxShieldDone =>
    /\ ret.raised = "no"
    /\ ArgsItemizable <= args.tax_params.standard_deduction
         => ret.value = 0
    /\ ArgsItemizable > args.tax_params.standard_deduction
         => ret.value =
              FDivInt(FMul(ArgsItemizable - args.tax_params.standard_deduction,
                           ArgsCombinedRate), 12)

(* the SALT cap binds and the excess is taxed at a positive rate *)
C11_Witness ==
  /\ TaxShieldDone
  /\ 12 * args.property_tax > args.tax_params.salt_cap
  /\ args.tax_params.salt_cap > 0
  /\ ArgsItemizable > args.tax_params.standard_deduction
  /\ args.tax_params.standard_deduction > 0
  /\ ret.value > 0

(* every other call with the same tax parameters and a larger excess *)
LargerExcessLargerShield ==
  \A mi \in MonthlyInterests, pt \in MonthlyPropertyTaxes,
     pd \in PointsDeductions :
    TotalItemizable(mi, pt, args.tax_params, pd) > ArgsItemizable
      => calculate_tax_shield(mi, pt, args.tax_params, pd) > ret.value

(* C12, as stated: for all marginal rates in [0, 1] the shield is strictly *)
(* positive whenever total_itemizable exceeds the standard deduction, and  *)
(* a larger excess yields a strictly larger shield.                        *)
C12_ShieldPositiveAndIncreasing ==
  (TaxShieldDone /\ ArgsItemizable > args.tax_params.standard_deduction)
    => (ret.value > 0 /\ LargerExcessLargerShield)

(* C12, amended: the same, for tax parameters whose combined federal +     *)
(* state marginal rate is positive; with a combined rate of 0 the shield   *)
(* is 0 whatever the excess.                                               *)
C12_ShieldPositiveAtPositiveRate ==
  (TaxShieldDone /\ ArgsItemizable > args.tax_params.standard_deduction)
    => IF ArgsCombinedRate > 0
       THEN ret.value > 0 /\ LargerExcessLargerShield
       ELSE ret.value = 0

(* a state-only filer with an excess that a larger call exceeds *)
C12_Witness ==
  /\ TaxShieldDone
  /\ args.tax_params.federal_marginal_rate = 0
  /\ args.tax_params.state_marginal_rate > 0
  /\ ArgsItemizable > args.tax_params.standard_deduction
  /\ \E mi \in MonthlyInterests, pt \in MonthlyPropertyTaxes,
        pd \in PointsDeductions :
       TotalItemizable(mi, pt, args.tax_params, pd) > ArgsItemizable
  /\ ret.value > 0

InAnalysis == op = "run_full_analysis"

BuyTableDone == InAnalysis /\ pc \in {"rent", "metrics", "irr", "done"}

RentTableDone == InAnalysis /\ pc \in {"metrics", "irr", "done"}

HorizonMonths == args.user_inputs.horizon_years * 12

MonthsInOrder(rows) == \A i \in 1..Len(rows) : rows[i].month = i

CashPurchase == InAnalysis /\ args.user_inputs.down_payment_pct = SCALE

(* C13: with down_payment_pct = 1.0 the loan is 0 and amortize returns an  *)
(* empty schedule, yet the buy and the rent table each have exactly        *)
(* horizon_years * 12 rows, months 1..N, every buy row has mortgage        *)
(* interest 0 and principal 0, and total_interest_paid is 0.               *)
C13_CashPurchase ==
  CashPurchase =>
    /\ work.derived_inputs.loan_amount = 0
    /\ amort.rows = <<>>
    /\ amort.m > amort.n
    /\ BuyTableDone =>
         /\ Len(buy.cash_flows) = HorizonMonths
         /\ MonthsInOrder(buy.cash_flows)
         /\ \A i \in 1..Len(buy.cash_flows) :
              /\ buy.cash_flows[i].mortgage_interest = 0
              /\ buy.cash_flows[i].mortgage_principal = 0
    /\ RentTableDone =>
         /\ Len(rent.cash_flows) = HorizonMonths
         /\ MonthsInOrder(rent.cash_flows)
    /\ (pc = "done" /\ ret.raised = "no")
         => ret.value.total_interest_paid = 0

C13_Witness ==
  /\ CashPurchase
  /\ pc = "done"
  /\ args.user_inputs.horizon_years = 2
  /\ amort.rows = <<>>
  /\ Len(buy.cash_flows) = 24
  /\ Len(rent.cash_flows) = 24
  /\ buy.cash_flows[24].property_tax > 0
  /\ ret.value.total_interest_paid = 0

TermMonths == args.user_inputs.mortgage_term_years * 12

(* the four recurring owner costs of a buy row are charged at their usual  *)
(* amounts for the row's home value                                        *)
OwnerCostsCharged(row) ==
  /\ row.property_tax
       = FDivInt(FMul(row.home_value, args.user_inputs.property_tax_rate), 12)
  /\ row.insurance_hoa = FDivInt(args.user_inputs.insurance_hoa_annual, 12)
  /\ row.maintenance
       = FDivInt(FMul(row.home_value, args.user_inputs.maintenance_pct), 12)
  /\ row.other_costs = FDivInt(args.user_inputs.other_owner_costs_annual, 12)
  /\ args.user_inputs.property_tax_rate > 0 => row.property_tax > 0
  /\ args.user_inputs.insurance_hoa_annual > 0 => row.insurance_hoa > 0
  /\ args.user_inputs.maintenance_pct > 0 => row.maintenance > 0
  /\ args.user_inputs.other_owner_costs_annual > 0 => row.other_costs > 0
  /\ row.total_other_costs >= row.property_tax + row.insurance_hoa
                               + row.maintenance + row.other_costs

(* C14: when mortgage_term_years * 12 < horizon_months, every buy row past *)
(* the term has mortgage interest 0 and principal 0 while property tax,    *)
(* insurance/HOA, maintenance and other owner costs are still charged, and *)
(* the table still has horizon_months rows.                                *)
C14_PaidOffLoan ==
  (BuyTableDone /\ TermMonths < HorizonMonths) =>
    /\ Len(buy.cash_flows) = HorizonMonths
    /\ \A i \in 1..Len(buy.cash_flows) :
         i > TermMonths =>
           /\ buy.cash_flows[i].month = i
           /\ buy.cash_flows[i].mortgage_interest = 0
           /\ buy.cash_flows[i].mortgage_principal = 0
           /\ buy.cash_flows[i].mortgage_payment = 0
           /\ OwnerCostsCharged(buy.cash_flows[i])

C14_Witness ==
  /\ BuyTableDone
  /\ TermMonths = 12
  /\ HorizonMonths = 24
  /\ work.derived_inputs.loan_amount > 0
  /\ buy.cash_flows[12].mortgage_interest > 0
  /\ buy.cash_flows[13].mortgage_interest = 0
  /\ buy.cash_flows[13].mortgage_principal = 0
  /\ buy.cash_flows[13].property_tax > 0
  /\ buy.cash_flows[13].insurance_hoa > 0
  /\ buy.cash_flows[13].maintenance > 0
  /\ buy.cash_flows[13].other_costs > 0

(* the rows calculate_rent_cash_flows has produced so far, in either kind  *)
(* of call                                                                 *)
RentRowsSoFar ==
  IF op \in {"run_full_analysis", "calculate_rent_cash_flows"}
     /\ pc \in {"rent", "metrics", "irr", "done"}
  THEN rent.cash_flows ELSE <<>>

PortfolioSeed ==
  work.derived_inputs.down_payment_amount + args.user_inputs.closing_costs_buy

(* C15: in the rent table, for a monthly alternative return >= 0 and any   *)
(* buy outflow series, portfolio_balance never decreases from one month to *)
(* the next and is never below its seed down_payment_amount +              *)
(* closing_costs_buy.                                                      *)
C15_PortfolioNeverDebited ==
  \A i \in 1..Len(RentRowsSoFar) :
    work.derived_inputs.monthly_alt_return_rate >= 0 =>
      /\ RentRowsSoFar[i].portfolio_balance >= PortfolioSeed
      /\ i > 1 => RentRowsSoFar[i].portfolio_balance
                    >= RentRowsSoFar[i - 1].portfolio_balance

(* a direct call whose buy outflows are below the rent in some months and  *)
(* negative or above it in others                                          *)
C15_Witness ==
  /\ op = "calculate_rent_cash_flows"
  /\ pc = "done"
  /\ PortfolioSeed > 0
  /\ work.derived_inputs.monthly_alt_return_rate > 0
  /\ \E i \in 1..Len(args.buy_monthly_outflows) :
       args.buy_monthly_outflows[i] < rent.cash_flows[i].total_rent_outflow
  /\ rent.cash_flows[1].monthly_surplus = 0
  /\ rent.cash_flows[12].portfolio_balance
       > rent.cash_flows[11].portfolio_balance
  /\ rent.cash_flows[11].portfolio_balance > PortfolioSeed

(* the buy net outflow of month m the rent projector is given; a series    *)
(* shorter than the horizon counts as 0 past its end                       *)
BuyNetOutflow(m) ==
  IF m <= Len(RentBuyOutflows) THEN RentBuyOutflows[m] ELSE 0

ExpectedRentOutflow(m) ==
  FMul(args.user_inputs.rent_today_monthly,
       FPow(SCALE + work.derived_inputs.monthly_rent_growth_rate, m - 1))
  + args.user_inputs.other_renter_costs_monthly

(* C16: in every rent row m, monthly_surplus = max(0, buy_net_outflow[m] - *)
(* total_rent_outflow[m]) with total_rent_outflow[m] = rent_today * (1 +   *)
(* monthly_rent_growth)^(m-1) + other_renter_costs; it is never negative   *)
(* and is exactly 0 in every month where renting costs at least as much as *)
(* buying.                                                                 *)
C16_SurplusIsFlooredDifference ==
  \A m \in 1..Len(RentRowsSoFar) :
    /\ RentRowsSoFar[m].month = m
    /\ RentRowsSoFar[m].total_rent_outflow = ExpectedRentOutflow(m)
    /\ RentRowsSoFar[m].monthly_surplus
         = (IF BuyNetOutflow(m) - ExpectedRentOutflow(m) > 0
            THEN BuyNetOutflow(m) - ExpectedRentOutflow(m) ELSE 0)
    /\ RentRowsSoFar[m].monthly_surplus >= 0
    /\ ExpectedRentOutflow(m) >= BuyNetOutflow(m)
         => RentRowsSoFar[m].monthly_surplus = 0

(* an analysis whose loan is paid off within the horizon: surplus while    *)
(* the mortgage is paid, none afterwards                                   *)
C16_Witness ==
  /\ RentTableDone
  /\ TermMonths = 12
  /\ HorizonMonths = 24
  /\ rent.cash_flows[1].monthly_surplus > 0
  /\ rent.cash_flows[24].monthly_surplus = 0
  /\ buy.cash_flows[24].net_monthly_outflow > 0
  /\ buy.cash_flows[24].net_monthly_outflow
       < rent.cash_flows[24].total_rent_outflow
  /\ rent.cash_flows[24].total_rent_outflow
       > rent.cash_flows[1].total_rent_outflow

HomeEquityDone == pc = "done" /\ op = "calculate_home_equity_at_exit"

ExitHomeValue(exit_month) ==
  FMul(args.user_inputs.purchase_price,
       FPow(SCALE + work.derived_inputs.monthly_appreciation_rate,
            exit_month - 1))

(* exit_home_value - remaining_loan_balance - exit_home_value *            *)
(* selling_cost_pct                                                        *)
NetEquity(exit_month) ==
  ExitHomeValue(exit_month)
  - remaining_balance_at_month(work.derived_inputs.loan_amount,
                               args.user_inputs.mortgage_rate,
                               args.user_inputs.mortgage_term_years,
                               exit_month)
  - FMul(ExitHomeValue(exit_month), args.user_inputs.selling_cost_pct)

FlooredAtZero(x) == IF x > 0 THEN x ELSE 0

(* C17: calculate_home_equity_at_exit returns max(0, exit_home_value -     *)
(* remaining_loan_balance - exit_home_value * selling_cost_pct) and so     *)
(* never a negative value, for every input and exit month; the same holds  *)
(* of home_equity_at_exit in the results of run_full_analysis.             *)
C17_EquityFlooredAtZero ==
  /\ HomeEquityDone =>
       /\ ret.value = FlooredAtZero(NetEquity(args.exit_month))
       /\ ret.value >= 0
  /\ (InAnalysis /\ pc = "done" /\ ret.raised = "no") =>
       /\ ret.value.home_equity_at_exit
            = FlooredAtZero(NetEquity(HorizonMonths))
       /\ ret.value.home_equity_at_exit >= 0

(* nothing down and 6% selling costs: the sale would not repay the loan *)
C17_Witness ==
  /\ HomeEquityDone
  /\ args.user_inputs.down_payment_pct = 0
  /\ args.user_inputs.selling_cost_pct = Pct(6)
  /\ args.exit_month = 1
  /\ args.user_inputs.mortgage_term_years = 2
  /\ NetEquity(args.exit_month) < 0
  /\ ret.value = 0

C19_Scenario1BreaksEven ==
  (AnalysisDone /\ args.user_inputs = Scenario1Inputs) =>
    /\ ret.raised = "no"
    /\ ret.value.breakeven_month.some
    /\ ret.value.breakeven_month.val <= 120

(* the call that returned differs from the recorded one in its             *)
(* annual_appreciation at most, and the recorded one's is not higher       *)
RecordedAtLowerAppreciation ==
  /\ AnalysisDone
  /\ calls # <<>>
  /\ calls[1].tax_params = args.tax_params
  /\ [calls[1].user_inputs EXCEPT !.annual_appreciation = 0]
       = [args.user_inputs EXCEPT !.annual_appreciation = 0]
  /\ calls[1].user_inputs.annual_appreciation
       <= args.user_inputs.annual_appreciation

(* C20, as stated: all other inputs and tax parameters held equal, a       *)
(* higher annual_appreciation never yields a lower net_worth_difference.   *)
C20_NetWorthNeverLower ==
  RecordedAtLowerAppreciation =>
    ret.value.net_worth_difference
      >= calls[1].result.value.net_worth_difference

(* C20, amended: all other inputs and tax parameters held equal, a higher  *)
(* annual_appreciation never yields a lower home_equity_at_exit; the       *)
(* net_worth_difference is not lower either unless the renter's portfolio  *)
(* has grown by more than the equity.                                      *)
C20_EquityNeverLower ==
  RecordedAtLowerAppreciation =>
    /\ ret.value.home_equity_at_exit
         >= calls[1].result.value.home_equity_at_exit
    /\ (ret.value.investment_portfolio_value
          - calls[1].result.value.investment_portfolio_value
        <= ret.value.home_equity_at_exit
           - calls[1].result.value.home_equity_at_exit)
         => ret.value.net_worth_difference
              >= calls[1].result.value.net_worth_difference

(* the financed purchase at 3% after it was analysed at no appreciation:   *)
(* equity, portfolio and net worth difference are all higher               *)
C20_Witness ==
  /\ RecordedAtLowerAppreciation
  /\ calls[1].user_inputs.annual_appreciation = 0
  /\ args.user_inputs.annual_appreciation = Pct(3)
  /\ ret.value.home_equity_at_exit
       > calls[1].result.value.home_equity_at_exit
  /\ ret.value.investment_portfolio_value
       > calls[1].result.value.investment_portfolio_value
  /\ ret.value.net_worth_difference
       > calls[1].result.value.net_worth_difference

(* the rows calculate_buy_cash_flows has produced so far *)
BuyRowsSoFar ==
  IF InAnalysis /\ pc \in {"buy", "rent", "metrics", "irr", "done"}
  THEN buy.cash_flows ELSE <<>>

RemainingBalance(m) ==
  remaining_balance_at_month(work.derived_inputs.loan_amount,
                             args.user_inputs.mortgage_rate,
                             args.user_inputs.mortgage_term_years, m)

(* remaining_balance(m) / home_value(m) *)
LoanToValue(m) == FDiv(RemainingBalance(m), BuyRowsSoFar[m].home_value)

PmiConfigured ==
  /\ args.user_inputs.pmi_annual_pct.some
  /\ args.user_inputs.pmi_threshold_pct.some

(* C21: with a PMI rate and a PMI threshold both configured (not None),    *)
(* the pmi column of buy-table row m equals remaining_balance(m) *         *)
(* pmi_annual_pct / 12 whenever remaining_balance(m) / home_value(m) >     *)
(* pmi_threshold_pct, and equals 0 whenever that ratio is <= the           *)
(* threshold, month by month.                                              *)
C21_PmiFollowsLoanToValue ==
  \A m \in 1..Len(BuyRowsSoFar) :
    PmiConfigured =>
      BuyRowsSoFar[m].pmi
        = (IF LoanToValue(m) > args.user_inputs.pmi_threshold_pct.val
           THEN FDivInt(FMul(RemainingBalance(m),
                             args.user_inputs.pmi_annual_pct.val), 12)
           ELSE 0)

(* the last month of the amortization window of the points (line 145) *)
PointsWindowMonths == Min2(args.user_inputs.mortgage_term_years, 5) * 12

(* the month's tax shield for a given points deduction *)
ShieldWithPoints(row, points_deduction) ==
  calculate_tax_shield(row.mortgage_interest, row.property_tax,
                       args.tax_params, points_deduction)

(* C22: when points_pct is configured, the points deduction contributes to *)
(* the monthly tax shield only in months 1..min(mortgage_term_years, 5)*12;*)
(* in every buy-table row after that window the tax shield equals the      *)
(* shield computed with no points deduction.                               *)
C22_PointsOnlyInsideWindow ==
  \A m \in 1..Len(BuyRowsSoFar) :
    (args.user_inputs.points_pct.some /\ m > PointsWindowMonths)
      => BuyRowsSoFar[m].tax_shield = ShieldWithPoints(BuyRowsSoFar[m], 0)

(* C23: in every buy-table row gross_monthly_outflow = mortgage_interest + *)
(* mortgage_principal + total_other_costs, net_monthly_outflow = gross -   *)
(* tax_shield and true_monthly_cost = mortgage_interest +                  *)
(* total_other_costs - tax_shield; hence net - true cost is the month's    *)
(* principal and the net outflow never exceeds the gross outflow.          *)
C23_OutflowIdentities ==
  \A m \in 1..Len(BuyRowsSoFar) :
    LET row == BuyRowsSoFar[m]
    IN /\ row.gross_monthly_outflow
            = row.mortgage_interest + row.mortgage_principal
              + row.total_other_costs
       /\ row.net_monthly_outflow = row.gross_monthly_outflow - row.tax_shield
       /\ row.true_monthly_cost
            = row.mortgage_interest + row.total_other_costs - row.tax_shield
       /\ row.net_monthly_outflow - row.true_monthly_cost
            = row.mortgage_principal
       /\ row.net_monthly_outflow <= row.gross_monthly_outflow

(* a finished buy table with a month that has a tax shield and repays      *)
(* principal, and a later month with neither                               *)
C23_Witness ==
  /\ BuyTableDone
  /\ \E m \in 1..Len(buy.cash_flows) :
        /\ buy.cash_flows[m].tax_shield > 0
        /\ buy.cash_flows[m].mortgage_principal > 0
  /\ \E m \in 1..Len(buy.cash_flows) :
        /\ buy.cash_flows[m].tax_shield = 0
        /\ buy.cash_flows[m].mortgage_principal = 0

(* the monthly property tax amounts whose annual total reaches the cap *)
AtOrAboveSaltCap(property_tax) == 12 * property_tax >= args.tax_params.salt_cap

(* C24: the property-tax deduction is capped at salt_cap: for fixed        *)
(* interest, points and tax parameters, any two monthly property-tax       *)
(* amounts that are both >= salt_cap / 12 produce the same tax shield.     *)
C24_SaltCapBinds ==
  TaxShieldDone =>
    \A other \in MonthlyPropertyTaxes :
      (AtOrAboveSaltCap(args.property_tax) /\ AtOrAboveSaltCap(other))
        => ret.value = calculate_tax_shield(args.mortgage_interest, other,
                                            args.tax_params,
                                            args.points_deduction)

(* a call above a positive cap that pays a shield, while another property  *)
(* tax amount is above the cap too                                         *)
C24_Witness ==
  /\ TaxShieldDone
  /\ args.tax_params.salt_cap > 0
  /\ AtOrAboveSaltCap(args.property_tax)
  /\ \E other \in MonthlyPropertyTaxes :
        other # args.property_tax /\ AtOrAboveSaltCap(other)
  /\ ret.value > 0

(* the portfolio balance before month m: the seed, or the row before *)
PortfolioBefore(m) ==
  IF m = 1 THEN PortfolioSeed ELSE RentRowsSoFar[m - 1].portfolio_balance

(* C25: the rent table's portfolio_balance follows balance[m] =            *)
(* balance[m-1] * (1 + monthly_alt_return) + monthly_surplus[m] for every  *)
(* month m >= 1, with balance[0] = down_payment_amount + closing_costs_buy:*)
(* the month's surplus is added after compounding.                         *)
C25_PortfolioRecurrence ==
  \A m \in 1..Len(RentRowsSoFar) :
    RentRowsSoFar[m].portfolio_balance
      = FMul(PortfolioBefore(m),
             SCALE + work.derived_inputs.monthly_alt_return_rate)
        + RentRowsSoFar[m].monthly_surplus

(* a finished rent table with a seed, a positive return and a surplus in   *)
(* its first and in a later month                                          *)
C25_Witness ==
  /\ RentTableDone
  /\ PortfolioSeed > 0
  /\ work.derived_inputs.monthly_alt_return_rate > 0
  /\ rent.cash_flows[1].monthly_surplus > 0
  /\ rent.cash_flows[12].monthly_surplus > 0
  /\ rent.cash_flows[12].portfolio_balance
       > rent.cash_flows[11].portfolio_balance
           + rent.cash_flows[12].monthly_surplus

(* calculate_buy_vs_rent_irr has built its stream *)
IrrStreamBuilt == InAnalysis /\ pc \in {"irr", "done"}

(* C26: calculate_buy_vs_rent_irr builds a stream of exactly               *)
(* horizon_months + 1 entries: entry 0 is -(down_payment_amount +          *)
(* closing_costs_buy), entry m for 1 <= m <= N is -net_monthly_outflow[m], *)
(* and final_home_equity is added to entry N only, never to entry 0 and    *)
(* never as an extra entry.  (Entry m is element m + 1 of the sequence.)   *)
C26_IrrStreamShape ==
  IrrStreamBuilt =>
    /\ Len(AnalysisIrrStream) = work.derived_inputs.horizon_months + 1
    /\ AnalysisIrrStream[1] = -PortfolioSeed
    /\ \A m \in 1..work.derived_inputs.horizon_months :
         AnalysisIrrStream[m + 1]
           = -buy.cash_flows[m].net_monthly_outflow
             + (IF m = work.derived_inputs.horizon_months
                THEN work.final_home_equity ELSE 0)

(* a stream whose sale proceeds turn the last entry positive, after a      *)
(* negative initial investment and negative months                         *)
C26_Witness ==
  /\ IrrStreamBuilt
  /\ pc = "done"
  /\ work.final_home_equity > 0
  /\ AnalysisIrrStream[1] < 0
  /\ AnalysisIrrStream[Len(AnalysisIrrStream) - 1] < 0
  /\ AnalysisIrrStream[Len(AnalysisIrrStream)] > 0
  /\ Len(AnalysisIrrStream) = 25

(* C27: when points_pct is configured, the amount added to the annual      *)
(* itemizable total in each month's tax-shield computation is the full     *)
(* annual points deduction, loan_amount * points_pct /                     *)
(* min(mortgage_term_years, 5).                                            *)
C27_FullAnnualPointsItemized ==
  \A m \in 1..Len(BuyRowsSoFar) :
    args.user_inputs.points_pct.some
      => BuyRowsSoFar[m].tax_shield
           = ShieldWithPoints(BuyRowsSoFar[m],
                              points_annual_deduction(args.user_inputs,
                                                      work.derived_inputs))

(* the call that returned and the recorded one differ in their             *)
(* closing_costs_buy only, and both returned a summary                     *)
RecordedAtOtherClosingCosts ==
  /\ AnalysisDone
  /\ calls # <<>>
  /\ calls[1].tax_params = args.tax_params
  /\ [calls[1].user_inputs EXCEPT !.closing_costs_buy = 0]
       = [args.user_inputs EXCEPT !.closing_costs_buy = 0]
  /\ calls[1].user_inputs.closing_costs_buy # args.user_inputs.closing_costs_buy
  /\ ret.raised = "no"
  /\ calls[1].result.raised = "no"

(* C28: the breakeven_month, npv_buy_costs and npv_rent_costs returned by  *)
(* run_full_analysis do not depend on closing_costs_buy: two runs whose    *)
(* inputs differ only in closing_costs_buy return the same three values.   *)
C28_ClosingCostsLeaveBreakevenAndNpv ==
  RecordedAtOtherClosingCosts =>
    /\ ret.value.breakeven_month = calls[1].result.value.breakeven_month
    /\ ret.value.npv_buy_costs = calls[1].result.value.npv_buy_costs
    /\ ret.value.npv_rent_costs = calls[1].result.value.npv_rent_costs

(* two such runs that break even, whose closing costs show in the renter's *)
(* portfolio                                                               *)
C28_Witness ==
  /\ RecordedAtOtherClosingCosts
  /\ ret.value.breakeven_month.some
  /\ ret.value.npv_buy_costs > 0
  /\ ret.value.npv_rent_costs > ret.value.npv_buy_costs
  /\ ret.value.investment_portfolio_value
       # calls[1].result.value.investment_portfolio_value

(* get_detailed_cash_flows has returned the tables of the inputs whose     *)
(* summary run_full_analysis returned before                               *)
TablesOfRecordedAnalysis ==
  /\ pc = "done"
  /\ op = "get_detailed_cash_flows"
  /\ calls # <<>>
  /\ calls[1].user_inputs = args.user_inputs
  /\ calls[1].tax_params = args.tax_params
  /\ calls[1].result.raised = "no"

(* C29: for the same inputs, the summary from run_full_analysis agrees     *)
(* with the tables from get_detailed_cash_flows:                           *)
(* investment_portfolio_value equals the last row's portfolio_balance of   *)
(* the rent table, total_interest_paid the sum of mortgage_interest and    *)
(* total_tax_shield the sum of tax_shield over the buy table, and          *)
(* net_worth_difference = home_equity_at_exit - investment_portfolio_value.*)
C29_SummaryAgreesWithTables ==
  TablesOfRecordedAnalysis =>
    LET summary == calls[1].result.value
        tables == ret.value
    IN /\ ret.raised = "no"
       /\ summary.investment_portfolio_value
            = tables.rent[Len(tables.rent)].portfolio_balance
       /\ summary.total_interest_paid
            = CumSum(tables.buy, "mortgage_interest", Len(tables.buy))
       /\ summary.total_tax_shield
            = CumSum(tables.buy, "tax_shield", Len(tables.buy))
       /\ summary.net_worth_difference
            = summary.home_equity_at_exit - summary.investment_portfolio_value

(* tables of 24 months for a summary with interest, a tax shield and a     *)
(* portfolio that has grown since the first month                          *)
C29_Witness ==
  /\ TablesOfRecordedAnalysis
  /\ Len(ret.value.buy) = 24
  /\ Len(ret.value.rent) = 24
  /\ calls[1].result.value.total_interest_paid > 0
  /\ calls[1].result.value.total_tax_shield > 0
  /\ calls[1].result.value.investment_portfolio_value
       > ret.value.rent[1].portfolio_balance

SharedLinkOpened == pc = "done" /\ op = "share"

(* C30: sharing round-trips: for every valid UserInputs x, including ones  *)
(* whose optional fields such as pmi_threshold_pct, pmi_annual_pct or      *)
(* points_pct are None, decoding the 'shared' parameter produced by        *)
(* encode_inputs_to_url(x) with decode_url_to_inputs yields a UserInputs   *)
(* equal to x in every field.                                              *)
C30_SharingRoundTrips ==
  SharedLinkOpened =>
    /\ ret.value.some
    /\ \A f \in DOMAIN args.user_inputs :
         ret.value.val[f] = args.user_inputs[f]

====
